---- MODULE Spec2Model ----
(***************************************************************************)
(* Model of the async task orchestrator: the HTTP task controller and      *)
(* service (enqueue path, cached read path), the task repository, the      *)
(* broker queue and the worker loop of internal/worker/worker.go.          *)
(***************************************************************************)
EXTENDS Integers, Sequences, FiniteSets, Bags, TLC

(* ------------------------------ bounds --------------------------------- *)
\* Number of task rows the store may hold.
MaxTasks == 1
\* Channels that close in a run (each closure puts one more copy of a
\* delivery in flight).
MaxClosed == 1

\* Last instant of the gateway clock, in ticks of 1/TicksPerSecond seconds.
MaxClock == 4

\* Last instant of the token clock, in quarters of an hour.
MaxAuthClock == 2
\* The TTL of a cache entry of the task service, in ticks.
CacheTTL == 2

(* ----------------------------- constants ------------------------------- *)
\* worker.go:129  "if retryCount >= 3"
MaxRetries == 3

\* cmd/worker/main.go: for i := 1; i <= 3; i++ { go worker.StartWorker(...) }
NumWorkers == 3

\* Two identities (serial ids start at 1) and the StartWorker goroutines.
Users == {1, 2}
Workers == 1..NumWorkers
\* The task types with a case in handleTask's switch.
KnownTypes == {"send_email", "generate_report", "resize_image", "cleanup_temp"}
\* The task types of the requests and fixtures of the runs below: one with
\* a handler (the four handlers differ in their sleep only) and the worker
\* test's type without one.
HandledTypes == {"send_email"}
TaskTypes == HandledTypes \cup {"INVALID_TASK_TYPE"}
\* Stands for a task_type holding the control character BEL (U+0007).
BellType == "beep<BEL>"

\* Identities whose requests pass the limiter; each has its own cache key
\* (UserRateLimiterKey), so one bucket shows every interleaving on a key.
Limited == {1}
\* Gateway goroutines that serve requests concurrently.
Threads == {1, 2}
\* The clock advances in half seconds; time.Now().Unix() sees whole seconds.
TicksPerSecond == 2
\* context.WithTimeout(..., 2*time.Second): the cache calls of one read are
\* made within two seconds of its start.
ReadDeadline == 2 * TicksPerSecond
\* Limiter configurations (Capacity, RefillRate) of the middleware's tests.
Configs == {[Capacity |-> 5, RefillRate |-> 10], [Capacity |-> 2, RefillRate |-> 2]}
\* rate_limiter.go:26-31, the configuration of the /api/v1 group.
DefaultRateLimiterConfig == [Capacity |-> 20, RefillRate |-> 10]
NoConfig == [Capacity |-> 0, RefillRate |-> 0]

NoBucket == [present |-> FALSE, tokens |-> 0, last_refill |-> 0, expireAt |-> 0,
             by |-> NoConfig]
IdleRequest == [pc |-> "idle", user |-> 0, cfg |-> NoConfig, at |-> 0, route |-> "",
                header |-> [scheme |-> "", token |-> [user_id |-> 0, type |-> "",
                    exp |-> 0, nbf |-> 0, secret |-> "", alg |-> ""]]]
NoHist == [n |-> 0, same |-> FALSE, balance |-> 0, lastAt |-> 0, lastCode |-> 0]
NoDecision == [code |-> 0, evaluated |-> FALSE]
\* Token lifetimes in quarters of an hour: 15 minutes and 7 days.
AccessTTL == 1
RefreshTTL == 672
AccessToken == "access"
RefreshToken == "refresh"
\* The server's signing secret and another one.
Secret == "secret"
OtherSecret == "other"
HMAC == {"HS256", "HS384", "HS512"}
\* A string that is no JWT.
Garbage == [user_id |-> 0, type |-> "", exp |-> 0, nbf |-> 0, secret |-> "", alg |-> ""]
NoClaims == [UserID |-> 0, Type |-> ""]
NoPair == [AccessToken |-> Garbage, RefreshToken |-> Garbage, ExpiresIn |-> 0]
NoHeaderSent == [scheme |-> "", token |-> Garbage]
NoAuthResp == [op |-> "none", header |-> NoHeaderSent, code |-> 0, userID |-> 0,
               ran |-> <<>>, err |-> "", cause |-> "", pair |-> NoPair]
NoHeld == [pair |-> NoPair, chain |-> 0]
\* The routes of the /api/v1 group.
Routes == {"CreateTask", "GetTask", "GetTasksByUser"}

\* A read of the task service: no call in progress, no answer yet.
IdleRead == [pc |-> "idle", op |-> "", caller |-> 0, key |-> 0, val |-> <<>>,
             at |-> 0, cacheErr |-> FALSE]

\* WithTransaction: no call in progress, no call returned yet.
NoStatement == [op |-> "", id |-> 0, arg |-> ""]
IdleTx == [pc |-> "idle", now |-> 0, fn |-> NoStatement, wrote |-> FALSE, result |-> ""]
NoTxOut == [result |-> "", ran |-> FALSE, wrote |-> FALSE, repeat |-> FALSE]

\* Register and Login: no call in progress, no answer yet.
IdleRegister == [pc |-> "idle", username |-> "", password |-> "", id |-> 0]
\* A Go error value: its dynamic type, the SQLSTATE it carries (if any) and
\* the words of its Error() text.  NoErr is nil.
NoErr == [type |-> "", code |-> "", text |-> <<>>]
NoRegResp == [code |-> 0, body |-> "", err |-> NoErr, user_id |-> 0, username |-> "",
              fault |-> FALSE]
NoLoginResp == [code |-> 0, body |-> "", username |-> "", password |-> "",
                pair |-> NoPair, fault |-> FALSE]

Null == "NULL"
NoMsg == [id |-> 0, user_id |-> 0, task_type |-> "", hdr |-> -1, hops |-> 0,
          parses |-> TRUE]
\* A delivery without an x-retry-count header (Headers == nil).
NoHeader == -1
MaxRetriesMsg == "max retries reached"
ResultFile == "result.txt"

VARIABLES
    tasks,      \* the tasks table: the committed rows, by id
    taskSeq,    \* the identity sequence of tasks.id: the last value handed out
    queue,      \* task_queue: bag of ready messages
    declared,   \* task_queue exists at the broker
    cur,        \* cur[w]: the delivery worker w is handling (NoMsg when none)
    unacked,    \* unacked[w]: the broker still holds cur[w] as unacknowledged
    pc,         \* pc[w]: worker w's position in the StartWorker loop
    chanOpen,   \* chanOpen[w]: worker w's consumer channel is open
    republishes,\* republishes[id]: republishes made so far for task id's message,
                \* counted up to RepublishCap (bookkeeping of the model)
    nacked,     \* some worker has handed a delivery back with Nack(false, true)
                \* after a failed claim (bookkeeping of the model)
    owed,       \* owed[w]: 1 once worker w has taken a delivery, less one for
                \* each Ack or Nack it has called for it (bookkeeping of the
                \* model)
    began,      \* began[w]: the instant worker w's open transaction started
    creating,   \* the CreateTask calls in flight, each at its position
    created,    \* the ids CreateTask has answered 201 for (bookkeeping of the
                \* model)
    taskCache,  \* cache entries task:<id>
    userCache,  \* cache entries tasks:user:<id>
    resp,       \* the last HTTP response written by the task controller
    writtenAt,  \* writtenAt[id]: the instant of the last commit that changed
                \* row id, -1 while there is no row (bookkeeping of the model)
    clock,      \* wall clock, in ticks
    bucket,     \* bucket[u]: the hash rate_limiter:user:<u> in the cache
    gw,         \* gw[t]: the request gateway goroutine t is serving
    hist,       \* hist[u]: evaluations of u's bucket since it was created
                \* (bookkeeping of the model)
    decision,   \* the last outcome of RateLimiterMiddleware
    authClock,  \* wall clock of the token checks, in quarters of an hour
    authResp,   \* the last outcome of an authenticated route or of /auth/*
    held,       \* the token pair the client got last, and the number of
                \* successive refreshes that led to it
    requests,   \* requests the /api/v1 group has taken so far (bookkeeping
                \* of the model)
    users,      \* the users table: sequence of rows in insertion order
    userSeq,    \* users_id_seq: the last id the sequence handed out
    reg,        \* reg[t]: the Register call goroutine t is serving
    regResp,    \* regResp[t]: the last answer of Register written by t
    accepted,   \* the registrations answered 201 so far, each marked current
                \* until its password is replaced (bookkeeping of
                \* the model)
    loginResp,  \* the last answer of POST /auth/login with credentials
    rd,         \* rd[t]: the cached read goroutine t is serving, step by step
    txn,        \* txn[t]: the WithTransaction call session t is running
    txOut       \* the outcome of the WithTransaction call that returned last

vars == <<tasks, taskSeq, queue, declared, cur, unacked, pc, chanOpen, republishes, nacked,
          owed, began, creating, created, taskCache, userCache, resp, writtenAt, clock,
          bucket, gw, hist, decision, authClock, authResp, held, requests, users, userSeq,
          reg, regResp, accepted, loginResp, rd, txn, txOut>>

taskVars == <<tasks, taskSeq, queue, declared, cur, unacked, pc, chanOpen, republishes,
              nacked, owed, began, creating, created, taskCache, userCache, resp, writtenAt>>
storeVars == <<tasks, taskSeq>>
brokerVars == <<queue, declared>>
workerVars == <<cur, unacked, pc, chanOpen, republishes, nacked, owed, began>>
cacheVars == <<taskCache, userCache>>
limiterVars == <<clock, bucket, gw, hist, decision>>
authVars == <<authClock, authResp, held, requests>>
gatewayVars == <<clock, bucket, gw, hist, decision, authClock, authResp, held, requests>>
accountVars == <<users, userSeq, reg, regResp, accepted, loginResp>>
readerVars == <<rd>>
txVars == <<txn, txOut>>
\* What no step of a worker writes.
offWorker == <<taskSeq, declared, creating, created, taskCache, userCache, resp,
               gatewayVars, readerVars, txVars, accountVars>>

Terminal == {"SUCCESS", "FAILED"}

(* ---------------------------- repository ------------------------------- *)
\* Each statement runs in a transaction; NOW() is the instant that
\* transaction started, given as now.

\* INSERT INTO tasks (user_id, task_type, status, ..., created_at, updated_at)
\* VALUES ($1, $2, $3, $4, NOW(), NOW()) RETURNING id
NewRow(user_id, task_type, status, now) ==
    [user_id |-> user_id, task_type |-> task_type, status |-> status,
     result_file |-> Null, error_message |-> Null, updated_at |-> now]

\* The table with the row of a committed INSERT.
Inserted(t, id, row) == t @@ (id :> row)

\* MarkProcessing writing the row's owner as well (no owner: 0).
MarkProcessing_ResetsOwner(t, id, now) ==
    IF id \in DOMAIN t
    THEN [t EXCEPT ![id].status = "PROCESSING", ![id].user_id = 0,
                   ![id].updated_at = now]
    ELSE t

\* UPDATE tasks SET status = 'PROCESSING', updated_at = NOW() WHERE id = $1
MarkProcessing(t, id, now) ==
    IF id \in DOMAIN t
    THEN [t EXCEPT ![id].status = "PROCESSING", ![id].updated_at = now]
    ELSE t

\* UPDATE tasks SET status = 'SUCCESS', result_file = $1, updated_at = NOW()
\* WHERE id = $2
MarkSuccess(t, id, resultFile, now) ==
    IF id \in DOMAIN t
    THEN [t EXCEPT ![id].status = "SUCCESS", ![id].result_file = resultFile,
                   ![id].updated_at = now]
    ELSE t

\* MarkFailed adding its message to the one the row holds.
MarkFailed_Appends(t, id, errorMessage, now) ==
    IF id \in DOMAIN t
    THEN [t EXCEPT ![id].status = "FAILED",
                   ![id].error_message = IF @ = Null THEN errorMessage
                                         ELSE @ \o "; " \o errorMessage,
                   ![id].updated_at = now]
    ELSE t

\* UPDATE tasks SET status = 'FAILED', error_message = $1, updated_at = NOW()
\* WHERE id = $2
MarkFailed(t, id, errorMessage, now) ==
    IF id \in DOMAIN t
    THEN [t EXCEPT ![id].status = "FAILED", ![id].error_message = errorMessage,
                   ![id].updated_at = now]
    ELSE t

(* ------------------------------ worker --------------------------------- *)
\* handleTask: nil for a type with a handler (each handler sleeps and
\* returns nil), fmt.Errorf("unknown task type: %s", ...) for any other.
handleTask(task_type) ==
    IF task_type \in KnownTypes
    THEN Null
    ELSE "unknown task type: " \o task_type

\* retryCount := 0; if count, ok := msg.Headers["x-retry-count"].(int32); ok { retryCount = count }
RetryCount(m) == IF m.hdr = NoHeader THEN 0 ELSE m.hdr

\* CreateTask writes task_type into the body with fmt's %q.  Go's quoting
\* of a control character such as BEL is \a, which is not a JSON escape:
\* json.Unmarshal rejects such a body.
JSONQuotable(task_type) == task_type # BellType

\* A message: the JSON body {id, user_id, task_type}, whether that body
\* parses as JSON, the x-retry-count
\* header, and hops, the number of republishes that led to it (bookkeeping
\* of the model, not on the wire).
Message(id, user_id, task_type, hdr) ==
    [id |-> id, user_id |-> user_id, task_type |-> task_type, hdr |-> hdr, hops |-> 0,
     parses |-> JSONQuotable(task_type)]

\* The message republishWithRetry publishes: same body, header set to retryCount.
republishWithRetry(m, retryCount) == [m EXCEPT !.hdr = retryCount, !.hops = m.hops + 1]

\* The retry decision with an off-by-one comparison (retryCount > 3).
RetriesExhausted_OffByOne(m) == RetryCount(m) > MaxRetries

\* The retry decision after a failed finalizing transaction.
RetriesExhausted(m) == RetryCount(m) >= MaxRetries

\* A task as the service returns it (the row with its id).
Snapshot(t, id) ==
    [id |-> id, user_id |-> t[id].user_id, task_type |-> t[id].task_type,
     status |-> t[id].status, result_file |-> t[id].result_file,
     error_message |-> t[id].error_message, updated_at |-> t[id].updated_at]

\* The highest id of the table (0 when it is empty).
LastId(t) == IF DOMAIN t = {} THEN 0 ELSE CHOOSE i \in DOMAIN t : \A j \in DOMAIN t : j <= i

\* The scan of the result set starting one row late.
RECURSIVE GetByUserID_FromSecond(_, _, _)
GetByUserID_FromSecond(t, userID, from) ==
    IF from + 1 > LastId(t) THEN <<>>
    ELSE (IF from + 1 \in DOMAIN t /\ t[from + 1].user_id = userID
          THEN <<Snapshot(t, from + 1)>> ELSE <<>>)
         \o GetByUserID_FromSecond(t, userID, from + 1)

\* SELECT ... FROM tasks WHERE user_id = $1: the rows of the user, from id
\* from on.
RECURSIVE GetByUserID(_, _, _)
GetByUserID(t, userID, from) ==
    IF from > LastId(t) THEN <<>>
    ELSE (IF from \in DOMAIN t /\ t[from].user_id = userID
          THEN <<Snapshot(t, from)>> ELSE <<>>)
         \o GetByUserID(t, userID, from + 1)

\* A cache key holds the JSON of a list of tasks until its TTL runs out, or
\* nothing.  TaskCacheTTL (one hour) is scaled down to CacheTTL ticks.
Absent == [present |-> FALSE, val |-> <<>>, expireAt |-> 0]
\* SET with a TTL longer by the read deadline.
Cached_Outlives(v) ==
    [present |-> TRUE, val |-> v, expireAt |-> clock + CacheTTL + ReadDeadline]
\* SET key value with TaskCacheTTL: the entry it leaves.
Cached(v) == [present |-> TRUE, val |-> v, expireAt |-> clock + CacheTTL]
\* GET key: the value of a key that is set and has not expired.
Live(e) == e.present /\ clock < e.expireAt

\* c.JSON(code, ...): the response of a controller method.  For a read,
\* from tells where the content came from ("cache" or "store"), began the
\* instant the request's read started, and the three flags which calls of
\* the read failed (bookkeeping of the model).
ReadAnswer(op, caller, code, id, ts, from, cacheErr, dbErr, setErr, at) ==
    [op |-> op, caller |-> caller, code |-> code, id |-> id, tasks |-> ts,
     from |-> from, cacheErr |-> cacheErr, dbErr |-> dbErr, setErr |-> setErr,
     began |-> at]
Response(op, caller, code, id, ts) ==
    ReadAnswer(op, caller, code, id, ts, "", FALSE, FALSE, FALSE, 0)

\* The instant of the last commit that changed row id, after a commit that
\* turned table t into tNew at instant now.
Written(s, t, tNew, id, now) ==
    IF id \notin DOMAIN s \/ id \notin DOMAIN tNew THEN s
    ELSE IF id \in DOMAIN t /\ tNew[id] = t[id] THEN s
    ELSE [s EXCEPT ![id] = now]

\* The republish count of task id raised by one, up to RepublishCap.
RepublishCap == MaxRetries + 1
Counted(c, id) ==
    IF id \in DOMAIN c /\ c[id] < RepublishCap THEN [c EXCEPT ![id] = c[id] + 1] ELSE c

Enqueue(q, m) == q (+) SetToBag({m})
Dequeue(q, m) == q (-) SetToBag({m})

Init ==
    /\ tasks = <<>>
    /\ taskSeq = 0
    /\ queue = EmptyBag
    /\ declared = FALSE
    /\ cur = [w \in Workers |-> NoMsg]
    /\ unacked = [w \in Workers |-> FALSE]
    /\ pc = [w \in Workers |-> "idle"]
    /\ chanOpen = [w \in Workers |-> TRUE]
    /\ republishes = [id \in 1..MaxTasks |-> 0]
    /\ nacked = FALSE
    /\ owed = [w \in Workers |-> 0]
    /\ began = [w \in Workers |-> 0]
    /\ creating = {}
    /\ created = {}
    /\ taskCache = [id \in 1..MaxTasks |-> Absent]
    /\ userCache = [u \in Users |-> Absent]
    /\ resp = Response("none", 0, 0, 0, <<>>)
    /\ writtenAt = [id \in 1..MaxTasks |-> -1]
    /\ clock = 0
    /\ bucket = [u \in Users |-> NoBucket]
    /\ gw = [t \in Threads |-> IdleRequest]
    /\ hist = [u \in Users |-> NoHist]
    /\ decision = NoDecision
    /\ authClock = 0
    /\ authResp = NoAuthResp
    /\ held = NoHeld
    /\ requests = 0
    /\ users = <<>>
    /\ userSeq = 0
    /\ reg = [t \in Threads |-> IdleRegister]
    /\ regResp = [t \in Threads |-> NoRegResp]
    /\ accepted = {}
    /\ loginResp = NoLoginResp
    /\ rd = [t \in Threads |-> IdleRead]
    /\ txn = [t \in Threads |-> IdleTx]
    /\ txOut = NoTxOut

\* cmd/worker/main.go:39-50: the worker process declares task_queue (durable)
\* before it starts its StartWorker goroutines; the API process never
\* declares it.
DeclareQueue ==
    /\ ~declared
    /\ declared' = TRUE
    /\ UNCHANGED <<storeVars, queue, workerVars, creating, created, cacheVars, writtenAt, resp,
                   gatewayVars, readerVars, txVars, accountVars>>

\* msg.Ack / msg.Nack(false, false): the broker forgets the delivery.  On a
\* closed channel the call returns an error, which the loop ignores.
Settle(w) ==
    /\ unacked' = [unacked EXCEPT ![w] = FALSE]
    /\ owed' = [owed EXCEPT ![w] = @ - 1]

\* The loop's "continue": back to "for msg := range msgs"; the range ends
\* when the channel is closed.
LoopTop(w) == IF chanOpen[w] THEN "idle" ELSE "stopped"

\* PostgreSQL at READ COMMITTED: an UPDATE locks its row until its
\* transaction ends.  Another worker holds the lock on row id while it is
\* between its UPDATE and its Commit.
Locked(id, w) ==
    /\ id \in DOMAIN tasks
    /\ \E x \in Workers \ {w} :
         /\ pc[x] \in {"claim_commit", "finalize_commit", "fail_commit"}
         /\ cur[x].id = id

\* The transaction of worker w is over: its NOW() is no more.
Ended(w) == [began EXCEPT ![w] = 0]

\* for msg := range msgs
WorkerReceive(w) ==
    /\ pc[w] = "idle"
    /\ chanOpen[w]
    /\ \E m \in BagToSet(queue) :
        /\ queue' = Dequeue(queue, m)
        /\ cur' = [cur EXCEPT ![w] = m]
        /\ unacked' = [unacked EXCEPT ![w] = TRUE]
        /\ owed' = [owed EXCEPT ![w] = 1]
        /\ pc' = [pc EXCEPT ![w] = "claim"]
    /\ UNCHANGED <<offWorker, tasks, writtenAt, chanOpen, republishes, nacked, began>>

\* A malformed delivery handed back to the queue.
WorkerDrop_Requeue(w) ==
    /\ pc[w] = "claim"
    /\ ~cur[w].parses
    /\ queue' = IF unacked[w] THEN Enqueue(queue, cur[w]) ELSE queue
    /\ Settle(w)
    /\ cur' = [cur EXCEPT ![w] = NoMsg]
    /\ pc' = [pc EXCEPT ![w] = LoopTop(w)]
    /\ UNCHANGED <<offWorker, tasks, writtenAt, chanOpen, republishes, nacked, began>>

\* json.Unmarshal fails: Nack(false, false) and continue.
WorkerDrop(w) ==
    /\ pc[w] = "claim"
    /\ ~cur[w].parses
    /\ Settle(w)
    /\ cur' = [cur EXCEPT ![w] = NoMsg]
    /\ pc' = [pc EXCEPT ![w] = LoopTop(w)]
    /\ UNCHANGED <<offWorker, tasks, writtenAt, queue, chanOpen, republishes, nacked, began>>

\* Transaction 1 returned an error: Nack(false, true), which puts the
\* delivery back in the queue, and continue (worker.go:101-106).
ClaimFailed(w) ==
    /\ queue' = IF unacked[w] THEN Enqueue(queue, cur[w]) ELSE queue
    /\ Settle(w)
    /\ cur' = [cur EXCEPT ![w] = NoMsg]
    /\ pc' = [pc EXCEPT ![w] = LoopTop(w)]
    /\ nacked' = TRUE

\* json.Unmarshal and the header read succeed; transaction 1 starts:
\* WithTransaction's db.Begin (tx.go:8-11), which fixes the transaction's NOW().
WorkerClaimBegin(w) ==
    /\ pc[w] = "claim"
    /\ cur[w].parses
    /\ \E ok \in BOOLEAN :
        IF ok
        THEN /\ pc' = [pc EXCEPT ![w] = "claim_exec"]
             /\ began' = [began EXCEPT ![w] = clock]
             /\ UNCHANGED <<queue, unacked, cur, nacked, owed>>
        ELSE /\ ClaimFailed(w)
             /\ began' = began
    /\ UNCHANGED <<offWorker, tasks, writtenAt, chanOpen, republishes>>

\* Transaction 1, repo.MarkProcessing: the UPDATE waits for the row's lock;
\* its error rolls the transaction back.
WorkerClaimUpdate(w) ==
    /\ pc[w] = "claim_exec"
    /\ \E ok \in BOOLEAN :
        IF ok
        THEN /\ ~Locked(cur[w].id, w)
             /\ pc' = [pc EXCEPT ![w] = "claim_commit"]
             /\ UNCHANGED <<queue, unacked, cur, nacked, owed>>
        ELSE ClaimFailed(w)
    /\ began' = IF pc'[w] = "claim_commit" THEN began ELSE Ended(w)
    /\ UNCHANGED <<offWorker, tasks, writtenAt, chanOpen, republishes>>

\* WorkerClaimCommit going on to the handler after a failed transaction.
WorkerClaimCommit_RunsHandler(w) ==
    /\ pc[w] = "claim_commit"
    /\ \E ok \in BOOLEAN :
        IF ok
        THEN /\ tasks' = MarkProcessing(tasks, cur[w].id, began[w])
             /\ pc' = [pc EXCEPT ![w] = "run"]
             /\ UNCHANGED <<queue, unacked, cur, nacked, owed>>
        ELSE /\ tasks' = tasks
             /\ queue' = IF unacked[w] THEN Enqueue(queue, cur[w]) ELSE queue
             /\ Settle(w)
             /\ cur' = cur
             /\ pc' = [pc EXCEPT ![w] = "run"]
             /\ nacked' = TRUE
    /\ writtenAt' = Written(writtenAt, tasks, tasks', cur[w].id, clock)
    /\ began' = Ended(w)
    /\ UNCHANGED <<offWorker, chanOpen, republishes>>

\* Transaction 1, tx.Commit: the row is PROCESSING from here on, stamped
\* with the instant the transaction started; an error of the commit leaves
\* the row as it was.
WorkerClaimCommit(w) ==
    /\ pc[w] = "claim_commit"
    /\ \E ok \in BOOLEAN :
        IF ok
        THEN /\ tasks' = MarkProcessing(tasks, cur[w].id, began[w])
             /\ pc' = [pc EXCEPT ![w] = "run"]
             /\ UNCHANGED <<queue, unacked, cur, nacked, owed>>
        ELSE /\ tasks' = tasks
             /\ ClaimFailed(w)
    /\ writtenAt' = Written(writtenAt, tasks, tasks', cur[w].id, clock)
    /\ began' = Ended(w)
    /\ UNCHANGED <<offWorker, chanOpen, republishes>>

\* taskErr := handleTask(&payload, id), outside any transaction: the
\* handler sleeps and returns.
WorkerRun(w) ==
    /\ pc[w] = "run"
    /\ pc' = [pc EXCEPT ![w] = "finalize"]
    /\ UNCHANGED <<offWorker, tasks, writtenAt, queue, cur, unacked, chanOpen, republishes,
                   nacked, owed, began>>

\* Finalize without the test on taskErr.
Finalize_IgnoresTaskErr(t, m, now) == MarkSuccess(t, m.id, ResultFile, now)

\* Finalize with the test on taskErr inverted.
Finalize_Inverted(t, m, now) ==
    IF handleTask(m.task_type) = Null
    THEN MarkFailed(t, m.id, handleTask(m.task_type), now)
    ELSE MarkSuccess(t, m.id, ResultFile, now)

\* The function of transaction 2: MarkFailed(taskErr.Error()) when the
\* handler failed, MarkSuccess("result.txt") otherwise.
Finalize(t, m, now) ==
    IF handleTask(m.task_type) # Null
    THEN MarkFailed(t, m.id, handleTask(m.task_type), now)
    ELSE MarkSuccess(t, m.id, ResultFile, now)

\* Transaction 2 starts: db.Begin; its error goes to the retry logic.
WorkerFinalizeBegin(w) ==
    /\ pc[w] = "finalize"
    /\ \E ok \in BOOLEAN :
        IF ok
        THEN /\ pc' = [pc EXCEPT ![w] = "finalize_exec"]
             /\ began' = [began EXCEPT ![w] = clock]
        ELSE /\ pc' = [pc EXCEPT ![w] = "retry"]
             /\ began' = began
    /\ UNCHANGED <<offWorker, tasks, writtenAt, queue, cur, unacked, chanOpen, republishes,
                   nacked, owed>>

\* Transaction 2, the UPDATE of MarkFailed or MarkSuccess.
WorkerFinalizeUpdate(w) ==
    /\ pc[w] = "finalize_exec"
    /\ \E ok \in BOOLEAN :
        IF ok
        THEN /\ ~Locked(cur[w].id, w)
             /\ pc' = [pc EXCEPT ![w] = "finalize_commit"]
        ELSE pc' = [pc EXCEPT ![w] = "retry"]
    /\ began' = IF pc'[w] = "finalize_commit" THEN began ELSE Ended(w)
    /\ UNCHANGED <<offWorker, tasks, writtenAt, queue, cur, unacked, chanOpen, republishes,
                   nacked, owed>>

\* Transaction 2, tx.Commit: the row is SUCCESS or FAILED from here on.
WorkerFinalizeCommit(w) ==
    /\ pc[w] = "finalize_commit"
    /\ \E ok \in BOOLEAN :
        IF ok
        THEN /\ tasks' = Finalize(tasks, cur[w], began[w])
             /\ pc' = [pc EXCEPT ![w] = "ack"]
        ELSE /\ tasks' = tasks
             /\ pc' = [pc EXCEPT ![w] = "retry"]
    /\ writtenAt' = Written(writtenAt, tasks, tasks', cur[w].id, clock)
    /\ began' = Ended(w)
    /\ UNCHANGED <<offWorker, queue, cur, unacked, chanOpen, republishes, nacked, owed>>

\* msg.Ack(false) after a committed transaction 2.
WorkerAck(w) ==
    /\ pc[w] = "ack"
    /\ Settle(w)
    /\ cur' = [cur EXCEPT ![w] = NoMsg]
    /\ pc' = [pc EXCEPT ![w] = LoopTop(w)]
    /\ UNCHANGED <<offWorker, tasks, writtenAt, queue, chanOpen, republishes, nacked, began>>

\* retryCount >= 3: transaction 3 starts (worker.go:129-130); the error of
\* any of its steps is only logged.
WorkerMaxRetriesBegin(w) ==
    /\ pc[w] = "retry"
    /\ RetriesExhausted(cur[w])
    /\ \E ok \in BOOLEAN :
        IF ok
        THEN /\ pc' = [pc EXCEPT ![w] = "fail_exec"]
             /\ began' = [began EXCEPT ![w] = clock]
        ELSE /\ pc' = [pc EXCEPT ![w] = "nack"]
             /\ began' = began
    /\ UNCHANGED <<offWorker, tasks, writtenAt, queue, cur, unacked, chanOpen, republishes,
                   nacked, owed>>

\* Transaction 3, the UPDATE of MarkFailed("max retries reached").
WorkerMaxRetriesUpdate(w) ==
    /\ pc[w] = "fail_exec"
    /\ \E ok \in BOOLEAN :
        IF ok
        THEN /\ ~Locked(cur[w].id, w)
             /\ pc' = [pc EXCEPT ![w] = "fail_commit"]
        ELSE pc' = [pc EXCEPT ![w] = "nack"]
    /\ began' = IF pc'[w] = "fail_commit" THEN began ELSE Ended(w)
    /\ UNCHANGED <<offWorker, tasks, writtenAt, queue, cur, unacked, chanOpen, republishes,
                   nacked, owed>>

\* Transaction 3, tx.Commit.
WorkerMaxRetriesCommit(w) ==
    /\ pc[w] = "fail_commit"
    /\ \E ok \in BOOLEAN :
        tasks' = IF ok THEN MarkFailed(tasks, cur[w].id, MaxRetriesMsg, began[w]) ELSE tasks
    /\ pc' = [pc EXCEPT ![w] = "nack"]
    /\ writtenAt' = Written(writtenAt, tasks, tasks', cur[w].id, clock)
    /\ began' = Ended(w)
    /\ UNCHANGED <<offWorker, queue, cur, unacked, chanOpen, republishes, nacked, owed>>

\* msg.Nack(false, false) after transaction 3, and continue.
WorkerNackExhausted(w) ==
    /\ pc[w] = "nack"
    /\ Settle(w)
    /\ cur' = [cur EXCEPT ![w] = NoMsg]
    /\ pc' = [pc EXCEPT ![w] = LoopTop(w)]
    /\ UNCHANGED <<offWorker, tasks, writtenAt, queue, chanOpen, republishes, nacked, began>>

\* retryCount < 3: republishWithRetry(ch, &msg, retryCount+1); on error
\* Nack(false, false) and continue, else go on to Ack.
WorkerRepublish(w) ==
    /\ pc[w] = "retry"
    /\ ~RetriesExhausted(cur[w])
    /\ \E ok \in BOOLEAN :
        IF ok /\ chanOpen[w]
        THEN /\ queue' = Enqueue(queue, republishWithRetry(cur[w], RetryCount(cur[w]) + 1))
             /\ pc' = [pc EXCEPT ![w] = "republished"]
             /\ republishes' = Counted(republishes, cur[w].id)
             /\ UNCHANGED <<unacked, cur, owed>>
        ELSE /\ queue' = queue
             /\ republishes' = republishes
             /\ Settle(w)
             /\ cur' = [cur EXCEPT ![w] = NoMsg]
             /\ pc' = [pc EXCEPT ![w] = LoopTop(w)]
    /\ UNCHANGED <<offWorker, tasks, writtenAt, chanOpen, nacked, began>>

\* The loop going on after a successful republish without its Ack.
WorkerAckRepublished_NoAck(w) ==
    /\ pc[w] = "republished"
    /\ cur' = [cur EXCEPT ![w] = NoMsg]
    /\ pc' = [pc EXCEPT ![w] = LoopTop(w)]
    /\ UNCHANGED <<offWorker, tasks, writtenAt, queue, unacked, owed, chanOpen, republishes,
                   nacked, began>>

\* msg.Ack(false) after a successful republish.
WorkerAckRepublished(w) ==
    /\ pc[w] = "republished"
    /\ Settle(w)
    /\ cur' = [cur EXCEPT ![w] = NoMsg]
    /\ pc' = [pc EXCEPT ![w] = LoopTop(w)]
    /\ UNCHANGED <<offWorker, tasks, writtenAt, queue, chanOpen, republishes, nacked, began>>

\* The worker's channel closes (connection loss, shutdown): the broker
\* requeues the delivery it held unacknowledged; the goroutine runs its
\* current iteration to the end and then leaves the range loop.
ChannelClosed(w) ==
    /\ chanOpen[w]
    /\ Cardinality({x \in Workers : ~chanOpen[x]}) < MaxClosed
    /\ chanOpen' = [chanOpen EXCEPT ![w] = FALSE]
    /\ queue' = IF unacked[w] THEN Enqueue(queue, cur[w]) ELSE queue
    /\ unacked' = [unacked EXCEPT ![w] = FALSE]
    /\ pc' = [pc EXCEPT ![w] = IF pc[w] = "idle" THEN "stopped" ELSE pc[w]]
    /\ UNCHANGED <<offWorker, tasks, writtenAt, cur, republishes, nacked, owed, began>>

(* ------------------------- task controller ----------------------------- *)
\* The calls of CreateTask that have yet to take their id from the sequence
\* count against the bound on its values.
CanCreate == taskSeq + Cardinality({r \in creating : r.pc = "insert"}) < MaxTasks

\* The goroutine of a new call: one that serves no call in flight.
FreeSlot ==
    CHOOSE n \in 1..(Cardinality(creating) + 1) : \A r \in creating : r.slot # n

\* The call r of creating at its next position.
Moved(r, position) == (creating \ {r}) \cup {[r EXCEPT !.pc = position]}

\* POST /api/v1/tasks, first step: bind the body (400 without task_type),
\* take the caller from the token, and WithTransaction's db.Begin
\* (controller.go:47-70, service.go:40-45, tx.go:8-11); a failed Begin is
\* answered 500.
CreateTask(caller, task_type) ==
    /\ CanCreate
    /\ IF task_type = ""
       THEN /\ resp' = Response("CreateTask", caller, 400, 0, <<>>)
            /\ creating' = creating
       ELSE \E ok \in BOOLEAN :
            IF ok
            THEN /\ creating' = creating \cup
                        {[slot |-> FreeSlot, pc |-> "insert", id |-> 0, user_id |-> caller,
                          task_type |-> task_type, at |-> clock, err |-> FALSE,
                          enqueued |-> FALSE]}
                 /\ resp' = resp
            ELSE /\ resp' = Response("CreateTask", caller, 500, 0, <<>>)
                 /\ creating' = creating
    /\ UNCHANGED <<storeVars, brokerVars, workerVars, created, cacheVars, writtenAt, readerVars, txVars,
                   accountVars>>

\* The controller called with the identity already in the context.
CreateTaskBegin(caller, task_type) ==
    CreateTask(caller, task_type) /\ UNCHANGED gatewayVars

\* Second step: repo.Create, INSERT ... RETURNING id inside the transaction
\* (part_014:25-50).  The identity sequence hands out its next value and
\* keeps it when the transaction rolls back; the row is not visible to
\* other sessions yet.  An error of the statement (connection lost before or
\* after the server ran it) rolls back and is answered 500.
CreateTaskInsert(r) ==
    /\ r \in creating
    /\ r.pc = "insert"
    /\ \E fault \in {"none", "unsent", "lost"} :
        /\ taskSeq' = IF fault = "unsent" THEN taskSeq ELSE taskSeq + 1
        /\ IF fault = "none"
           THEN /\ creating' = (creating \ {r}) \cup
                                   {[r EXCEPT !.pc = "commit", !.id = taskSeq']}
                /\ resp' = resp
           ELSE /\ creating' = creating \ {r}
                /\ resp' = Response("CreateTask", r.user_id, 500, 0, <<>>)
    /\ UNCHANGED <<tasks, brokerVars, workerVars, created, cacheVars, writtenAt, gatewayVars, readerVars,
                   txVars, accountVars>>

\* Third step: tx.Commit (tx.go:29) makes the row visible, PENDING and
\* stamped with the instant the transaction started; when it fails no row
\* is left and the answer is 500.
CreateTaskCommit(r) ==
    /\ r \in creating
    /\ r.pc = "commit"
    /\ \E ok \in BOOLEAN :
        IF ok
        THEN /\ tasks' = Inserted(tasks, r.id,
                                  NewRow(r.user_id, r.task_type, "PENDING", r.at))
             /\ creating' = (creating \ {r}) \cup {[r EXCEPT !.pc = "channel", !.at = 0]}
             /\ resp' = resp
        ELSE /\ tasks' = tasks
             /\ creating' = creating \ {r}
             /\ resp' = Response("CreateTask", r.user_id, 500, 0, <<>>)
    /\ writtenAt' = Written(writtenAt, tasks, tasks', r.id, clock)
    /\ UNCHANGED <<taskSeq, brokerVars, workerVars, created, cacheVars, gatewayVars,
                   readerVars, txVars, accountVars>>

\* Fourth step: queue.CreateChannel (service.go:56-59); its error is
\* answered 500 and leaves the committed row.
CreateTaskChannel(r) ==
    /\ r \in creating
    /\ r.pc = "channel"
    /\ \E ok \in BOOLEAN :
        IF ok
        THEN /\ creating' = Moved(r, "publish")
             /\ resp' = resp
        ELSE /\ creating' = creating \ {r}
             /\ resp' = Response("CreateTask", r.user_id, 500, 0, <<>>)
    /\ UNCHANGED <<storeVars, brokerVars, workerVars, created, cacheVars, writtenAt, gatewayVars,
                   readerVars, txVars, accountVars>>

\* Fifth step: ch.Publish to the default exchange with the routing key
\* task_queue, mandatory = false, on a channel without publisher confirms
\* (service.go:62-75).  A nil return tells that the frame was written: the
\* broker routes the message to task_queue when the queue exists and the
\* frame arrives, and drops it silently otherwise.
CreateTaskPublish(r) ==
    /\ r \in creating
    /\ r.pc = "publish"
    /\ \E ok \in BOOLEAN, arrived \in BOOLEAN :
        /\ queue' = IF ok /\ arrived /\ declared
                    THEN Enqueue(queue, Message(r.id, r.user_id, r.task_type, NoHeader))
                    ELSE queue
        /\ creating' = (creating \ {r}) \cup
                           {[r EXCEPT !.pc = "answer", !.err = ~ok,
                                      !.enqueued = ok /\ arrived /\ declared]}
    /\ UNCHANGED <<storeVars, declared, workerVars, created, cacheVars, writtenAt, resp, gatewayVars,
                   readerVars, txVars, accountVars>>

\* Last step: the deferred ch.Close(), whose error is dropped, and the
\* controller's answer: 500 for an error of Publish, 201 with the row's id
\* otherwise (service.go:60, controller.go:70-79).
CreateTaskAnswer(r) ==
    /\ r \in creating
    /\ r.pc = "answer"
    /\ creating' = creating \ {r}
    /\ IF r.err
       THEN /\ resp' = Response("CreateTask", r.user_id, 500, 0, <<>>)
            /\ created' = created
       ELSE /\ resp' = Response("CreateTask", r.user_id, 201, r.id, <<>>)
            /\ created' = created \cup {r.id}
    /\ UNCHANGED <<storeVars, brokerVars, workerVars, cacheVars, writtenAt, gatewayVars, readerVars,
                   txVars, accountVars>>

\* The steps of the CreateTask calls in flight.
CreateTaskNext ==
    \/ \E r \in creating : CreateTaskInsert(r)
    \/ \E r \in creating : CreateTaskCommit(r)
    \/ \E r \in creating : CreateTaskChannel(r)
    \/ \E r \in creating : CreateTaskPublish(r)
    \/ \E r \in creating : CreateTaskAnswer(r)

\* strconv.Atoi on a path parameter, given as its sequence of characters:
\* an optional sign, then decimal digits only.
Digits == <<"0", "1", "2", "3", "4", "5", "6", "7", "8", "9">>
DigitValue(c) == (CHOOSE i \in DOMAIN Digits : Digits[i] = c) - 1
IsDigit(c) == \E i \in DOMAIN Digits : Digits[i] = c
RECURSIVE ParseDigits(_, _)
ParseDigits(str, acc) ==
    IF str = <<>> THEN acc
    ELSE ParseDigits(Tail(str), acc * 10 + DigitValue(Head(str)))
Atoi(str) ==
    LET signed == str # <<>> /\ Head(str) \in {"+", "-"}
        body == IF signed THEN Tail(str) ELSE str
    IN  IF body = <<>> \/ \E i \in DOMAIN body : ~IsDigit(body[i])
        THEN [ok |-> FALSE, n |-> 0]
        ELSE [ok |-> TRUE,
              n |-> IF signed /\ Head(str) = "-" THEN 0 - ParseDigits(body, 0)
                                                 ELSE ParseDigits(body, 0)]
\* The path parameter of a one-digit number, and one that is no number.
Param(n) == <<Digits[n + 1]>>
NoNumber == <<"a", "b", "c">>

\* The cache entry of a read: task:<id> or tasks:user:<id>.
Entry(op, key) ==
    IF op = "GetTask"
    THEN (IF key \in DOMAIN taskCache THEN taskCache[key] ELSE Absent)
    ELSE (IF key \in DOMAIN userCache THEN userCache[key] ELSE Absent)

\* repo.GetByID (sql.ErrNoRows when the id is unknown) or repo.GetByUserID.
StoreRead(t, op, key) ==
    IF op = "GetTask"
    THEN (IF key \in DOMAIN t
          THEN [found |-> TRUE, val |-> <<Snapshot(t, key)>>]
          ELSE [found |-> FALSE, val |-> <<>>])
    ELSE [found |-> TRUE, val |-> GetByUserID(t, key, 1)]

\* The controller answering 403 for a service error.
ReadErrorStatus_Forbidden(op) == IF op = "GetTask" THEN 403 ELSE 500

\* The controller's status for a service error: 404 for a task, 500 for a list.
ReadErrorStatus(op) == IF op = "GetTask" THEN 404 ELSE 500

\* GET /api/v1/tasks/:id and GET /api/v1/users/:user_id/tasks are three
\* calls in sequence, the cache GET, the store read and the cache SET; other
\* requests and the workers run between them.
\* First step: the controller parses the path parameter (400 when it is no
\* number), then the service's cache.Get: a hit is answered at once, a miss
\* or a cache error goes on to the store.
ReadCacheGet(t, op, caller, param) ==
    /\ rd[t].pc = "idle"
    /\ LET a == Atoi(param)
       IN  IF ~a.ok
           THEN /\ resp' = Response(op, caller, 400, 0, <<>>)
                /\ rd' = rd
           ELSE \E cacheOk \in BOOLEAN :
                IF cacheOk /\ Live(Entry(op, a.n))
                THEN /\ resp' = ReadAnswer(op, caller, 200, a.n, Entry(op, a.n).val,
                                           "cache", FALSE, FALSE, FALSE, clock)
                     /\ rd' = rd
                ELSE /\ rd' = [rd EXCEPT ![t] = [pc |-> "store", op |-> op,
                                                 caller |-> caller, key |-> a.n,
                                                 val |-> <<>>, at |-> clock,
                                                 cacheErr |-> ~cacheOk]]
                     /\ resp' = resp
    /\ UNCHANGED <<storeVars, brokerVars, workerVars, creating, created, cacheVars, writtenAt,
                   txVars, accountVars>>

\* The controller called with the identity already in the context.
ReadBegin(t, op, caller, param) ==
    ReadCacheGet(t, op, caller, param) /\ UNCHANGED gatewayVars

\* Second step: repo.GetByID / repo.GetByUserID; an error ends the read with
\* the controller's error status.
ReadFromStore(t) ==
    /\ rd[t].pc = "store"
    /\ \E dbOk \in BOOLEAN :
        IF dbOk /\ StoreRead(tasks, rd[t].op, rd[t].key).found
        THEN /\ rd' = [rd EXCEPT ![t].pc = "set",
                                 ![t].val = StoreRead(tasks, rd[t].op, rd[t].key).val]
             /\ resp' = resp
        ELSE /\ resp' = ReadAnswer(rd[t].op, rd[t].caller, ReadErrorStatus(rd[t].op),
                                   rd[t].key, <<>>, "", rd[t].cacheErr, ~dbOk, FALSE,
                                   rd[t].at)
             /\ rd' = [rd EXCEPT ![t] = IdleRead]
    /\ UNCHANGED <<storeVars, brokerVars, workerVars, creating, created, cacheVars, writtenAt,
                   gatewayVars, txVars, accountVars>>

\* The cache SET of a read: the entry a successful SET leaves.
CacheSet(c, key, val, setOk) ==
    IF setOk /\ key \in DOMAIN c THEN [c EXCEPT ![key] = Cached(val)] ELSE c

\* ReadEnd answering with a service error when the cache SET fails.
ReadEnd_SetFatal(t) ==
    /\ rd[t].pc = "set"
    /\ \E setOk \in BOOLEAN :
        /\ setOk => clock < rd[t].at + ReadDeadline
        /\ taskCache' = CacheSet(taskCache, rd[t].key, rd[t].val,
                                 setOk /\ rd[t].op = "GetTask")
        /\ userCache' = CacheSet(userCache, rd[t].key, rd[t].val,
                                 setOk /\ rd[t].op = "GetTasksByUser")
        /\ resp' = IF setOk
                   THEN ReadAnswer(rd[t].op, rd[t].caller, 200, rd[t].key, rd[t].val,
                                   "store", rd[t].cacheErr, FALSE, FALSE, rd[t].at)
                   ELSE ReadAnswer(rd[t].op, rd[t].caller, ReadErrorStatus(rd[t].op),
                                   rd[t].key, <<>>, "", rd[t].cacheErr, FALSE, TRUE,
                                   rd[t].at)
    /\ rd' = [rd EXCEPT ![t] = IdleRead]
    /\ UNCHANGED <<storeVars, brokerVars, workerVars, creating, created, writtenAt,
                   gatewayVars, txVars, accountVars>>

\* Third step: cache.Set of what the store returned (an error is logged and
\* ignored), then the answer: 200 with what the store returned.
ReadEnd(t) ==
    /\ rd[t].pc = "set"
    /\ \E setOk \in BOOLEAN :
        /\ setOk => clock < rd[t].at + ReadDeadline
        /\ taskCache' = CacheSet(taskCache, rd[t].key, rd[t].val,
                                 setOk /\ rd[t].op = "GetTask")
        /\ userCache' = CacheSet(userCache, rd[t].key, rd[t].val,
                                 setOk /\ rd[t].op = "GetTasksByUser")
        /\ resp' = ReadAnswer(rd[t].op, rd[t].caller, 200, rd[t].key, rd[t].val,
                              "store", rd[t].cacheErr, FALSE, ~setOk, rd[t].at)
    /\ rd' = [rd EXCEPT ![t] = IdleRead]
    /\ UNCHANGED <<storeVars, brokerVars, workerVars, creating, created, writtenAt,
                   gatewayVars, txVars, accountVars>>

\* A cache key reaches its TTL (TaskCacheTTL) and is dropped.
CacheExpire ==
    /\ \/ \E id \in DOMAIN taskCache :
            /\ taskCache[id].present
            /\ taskCache' = [taskCache EXCEPT ![id] = Absent]
            /\ userCache' = userCache
       \/ \E u \in Users :
            /\ userCache[u].present
            /\ userCache' = [userCache EXCEPT ![u] = Absent]
            /\ taskCache' = taskCache
    /\ UNCHANGED <<storeVars, brokerVars, workerVars, creating, created, resp, writtenAt,
                   gatewayVars, readerVars, txVars, accountVars>>

\* The retry test's fixture (worker_test.go:100-140): a row inserted through
\* the repository in a transaction of its own, the queue declared, and a
\* message for the row published with x-retry-count = 3.
TaskRetryFixture(userID, task_type) ==
    /\ CanCreate
    /\ taskSeq' = taskSeq + 1
    /\ tasks' = Inserted(tasks, taskSeq', NewRow(userID, task_type, "PENDING", clock))
    /\ declared' = TRUE
    /\ queue' = Enqueue(queue, Message(taskSeq', userID, task_type, 3))
    /\ writtenAt' = Written(writtenAt, tasks, tasks', taskSeq', clock)
    /\ UNCHANGED <<workerVars, creating, created, cacheVars, resp, gatewayVars, readerVars,
                   txVars, accountVars>>

WorkerNext(w) ==
    \/ WorkerReceive(w)
    \/ WorkerClaimBegin(w)
    \/ WorkerClaimUpdate(w)
    \/ WorkerClaimCommit(w)
    \/ WorkerRun(w)
    \/ WorkerFinalizeBegin(w)
    \/ WorkerFinalizeUpdate(w)
    \/ WorkerFinalizeCommit(w)
    \/ WorkerAck(w)
    \/ WorkerMaxRetriesBegin(w)
    \/ WorkerMaxRetriesUpdate(w)
    \/ WorkerMaxRetriesCommit(w)
    \/ WorkerNackExhausted(w)
    \/ WorkerRepublish(w)
    \/ WorkerAckRepublished(w)

\* The users that enqueue while the worker pool runs.  The consumer reads
\* only the task id and the task type of a message (worker.go), so one
\* enqueuing user exercises every path of the pool; the HTTP surface below
\* keeps both users.
Enqueuers == {1}

\* The enqueue path, the broker and the worker pool.
Next ==
    \/ \E u \in Enqueuers, tt \in TaskTypes \cup {""} : CreateTaskBegin(u, tt)
    \/ CreateTaskNext
    \/ DeclareQueue
    \/ \E u \in Enqueuers, tt \in TaskTypes : TaskRetryFixture(u, tt)
    \/ \E w \in Workers : WorkerNext(w)
    \/ \E w \in Workers : ChannelClosed(w)

Spec == Init /\ [][Next]_vars

\* Path parameters of the read routes: the ids of the rows and the one
\* after them, the user ids, and a parameter that is no number.
TaskParams == {Param(id) : id \in 1..(MaxTasks + 1)} \cup {NoNumber}
UserParams == {Param(u) : u \in Users} \cup {NoNumber}

\* The goroutine that serves the reads of the runs in which requests are
\* answered one after the other; ReadSpec below has concurrent reads.
Readers == {1}

\* The HTTP surface of the task controller served by the API process alone
\* (no worker process runs, so task_queue is never declared): one user
\* creates tasks, both users read tasks and lists, one CreateTask and one
\* read at a time; the steps of a read interleave with the steps of
\* CreateTask and with the expiry of keys.
ApiNext ==
    \/ \E u \in Enqueuers, tt \in HandledTypes \cup {""} :
            creating = {} /\ CreateTaskBegin(u, tt)
    \/ CreateTaskNext
    \/ \E t \in Readers, u \in Users, param \in TaskParams :
            ReadBegin(t, "GetTask", u, param)
    \/ \E t \in Readers, u \in Users, param \in UserParams :
            ReadBegin(t, "GetTasksByUser", u, param)
    \/ \E t \in Readers : ReadFromStore(t)
    \/ \E t \in Readers : ReadEnd(t)
    \/ CacheExpire

ApiSpec == Init /\ [][ApiNext]_vars

\* The cache after the keys that reach their TTL at instant now are gone.
Expire(c, now) ==
    [k \in DOMAIN c |-> IF c[k].present /\ now >= c[k].expireAt THEN Absent ELSE c[k]]

\* No round trip of a worker or of a CreateTask call is under way: every
\* worker waits for a delivery, sleeps in its handler or has left its loop.
Quiet ==
    /\ creating = {}
    /\ \A w \in Workers : pc[w] \in {"idle", "run", "stopped"}

\* The wall clock of the polling runs.  Its origin is an instant at which the
\* polled task is SUCCESS, and its ticks (half seconds) pass while the
\* workers sleep in their handlers or wait for deliveries: the round trips
\* in between take milliseconds.  A key that reaches its TTL is gone.
MaxPollClock == 6
PollTick ==
    /\ clock < MaxPollClock
    /\ clock > 0 \/ \E id \in DOMAIN tasks : tasks[id].status = "SUCCESS"
    /\ Quiet
    /\ clock' = clock + 1
    /\ taskCache' = Expire(taskCache, clock')
    /\ userCache' = Expire(userCache, clock')
    /\ UNCHANGED <<storeVars, brokerVars, workerVars, creating, created, resp, writtenAt,
                   readerVars, txVars, accountVars, authVars, bucket, gw, hist, decision>>

\* The workers of the polling runs.
Pollers == {1, 2}

\* The steps of worker w from the delivery to the acknowledgement
\* (worker.go:68-125, 151-155).
WorkerPass(w) ==
    \/ WorkerReceive(w)
    \/ WorkerClaimBegin(w)
    \/ WorkerClaimUpdate(w)
    \/ WorkerClaimCommit(w)
    \/ WorkerRun(w)
    \/ WorkerFinalizeBegin(w)
    \/ WorkerFinalizeUpdate(w)
    \/ WorkerFinalizeCommit(w)
    \/ WorkerAck(w)

\* A client creates a task and polls its own task, one poll at a time, while
\* two workers process it, one losing its channel and the other taking the
\* delivery again, over a span longer than the cache TTL and the read
\* deadline together.  A worker whose transaction 2 failed goes no further
\* in these runs: the retry logic runs in Spec and in OwnerSpec.
PollNext ==
    \/ \E u \in Enqueuers, tt \in HandledTypes : CreateTaskBegin(u, tt)
    \/ CreateTaskNext
    \/ DeclareQueue
    \/ \E w \in Pollers : WorkerPass(w)
    \/ \E w \in Pollers : ChannelClosed(w)
    \/ \E t \in Readers, id \in DOMAIN tasks :
            ReadBegin(t, "GetTask", tasks[id].user_id, Param(id))
    \/ \E t \in Readers : ReadFromStore(t)
    \/ \E t \in Readers : ReadEnd(t)
    \/ PollTick

PollSpec == Init /\ [][PollNext]_vars

\* A client creates a task and reads it again and again while two workers
\* process it, retry logic included.
OwnerNext ==
    \/ \E u \in Enqueuers, tt \in HandledTypes : CreateTaskBegin(u, tt)
    \/ CreateTaskNext
    \/ DeclareQueue
    \/ \E w \in Pollers : WorkerNext(w)
    \/ \E t \in Readers, id \in DOMAIN tasks :
            ReadBegin(t, "GetTask", tasks[id].user_id, Param(id))
    \/ \E t \in Readers : ReadFromStore(t)
    \/ \E t \in Readers : ReadEnd(t)
    \/ CacheExpire

OwnerSpec == Init /\ [][OwnerNext]_vars

\* The enqueue path for task types of any content, and the worker pool.
IntakeNext ==
    \/ \E u \in Enqueuers, tt \in HandledTypes \cup {BellType} : CreateTaskBegin(u, tt)
    \/ CreateTaskNext
    \/ DeclareQueue
    \/ \E w \in Workers : WorkerNext(w) \/ WorkerDrop(w)
    \/ \E w \in Workers : ChannelClosed(w)

IntakeSpec == Init /\ [][IntakeNext]_vars

(* ------------------------------- tokens -------------------------------- *)
\* generateToken: HS256 over the claims, NotBefore and IssuedAt = now,
\* ExpiresAt = now + duration.
generateToken(userID, tokenType, duration, secret, now) ==
    [user_id |-> userID, type |-> tokenType, exp |-> now + duration, nbf |-> now,
     secret |-> secret, alg |-> "HS256"]

GenerateTokenPair(userID, secret, now) ==
    [AccessToken  |-> generateToken(userID, AccessToken, AccessTTL, secret, now),
     RefreshToken |-> generateToken(userID, RefreshToken, RefreshTTL, secret, now),
     ExpiresIn    |-> AccessTTL]

\* ValidateToken: jwt.ParseWithClaims checks the method and the signature,
\* then the registered claims (expired when now is not before exp).
ValidateToken(tok, secret, now) ==
    IF tok.alg \notin HMAC \/ tok.secret # secret
    THEN [err |-> "invalid token", claims |-> NoClaims]
    ELSE IF ~(now < tok.exp) THEN [err |-> "token expired", claims |-> NoClaims]
    ELSE IF now < tok.nbf THEN [err |-> "invalid token", claims |-> NoClaims]
    ELSE [err |-> "", claims |-> [UserID |-> tok.user_id, Type |-> tok.type]]

\* RefreshTokenPair issuing the pair for a fixed identity.
RefreshTokenPair_FirstUser(tok, secret, now) ==
    LET v == ValidateToken(tok, secret, now)
    IN  IF v.err # "" THEN [err |-> "invalid refresh token", pair |-> NoPair]
        ELSE IF v.claims.Type # RefreshToken
        THEN [err |-> "not a refresh token", pair |-> NoPair]
        ELSE [err |-> "", pair |-> GenerateTokenPair(1, secret, now)]

\* RefreshTokenPair without its check of the token type.
RefreshTokenPair_AnyType(tok, secret, now) ==
    LET v == ValidateToken(tok, secret, now)
    IN  IF v.err # "" THEN [err |-> "invalid refresh token", pair |-> NoPair]
        ELSE [err |-> "", pair |-> GenerateTokenPair(v.claims.UserID, secret, now)]

RefreshTokenPair(tok, secret, now) ==
    LET v == ValidateToken(tok, secret, now)
    IN  IF v.err # "" THEN [err |-> "invalid refresh token", pair |-> NoPair]
        ELSE IF v.claims.Type # RefreshToken
        THEN [err |-> "not a refresh token", pair |-> NoPair]
        ELSE [err |-> "", pair |-> GenerateTokenPair(v.claims.UserID, secret, now)]

\* AuthMiddleware without its check of the token type.
AuthMiddleware_AnyType(header, secret, now) ==
    IF header.scheme = ""
    THEN [code |-> 401, err |-> "Authorization header required", userID |-> 0]
    ELSE IF header.scheme # "Bearer"
    THEN [code |-> 401, err |-> "Invalid authorization format", userID |-> 0]
    ELSE LET v == ValidateToken(header.token, secret, now)
         IN  IF v.err = "token expired"
             THEN [code |-> 401, err |-> "Token expired", userID |-> 0]
             ELSE IF v.err # ""
             THEN [code |-> 401, err |-> "Invalid token", userID |-> 0]
             ELSE [code |-> 0, err |-> "", userID |-> v.claims.UserID]

\* AuthMiddleware: 401 and Abort, or the userID for the rest of the chain.
AuthMiddleware(header, secret, now) ==
    IF header.scheme = ""
    THEN [code |-> 401, err |-> "Authorization header required", userID |-> 0]
    ELSE IF header.scheme # "Bearer"
    THEN [code |-> 401, err |-> "Invalid authorization format", userID |-> 0]
    ELSE LET v == ValidateToken(header.token, secret, now)
         IN  IF v.err = "token expired"
             THEN [code |-> 401, err |-> "Token expired", userID |-> 0]
             ELSE IF v.err # ""
             THEN [code |-> 401, err |-> "Invalid token", userID |-> 0]
             ELSE IF v.claims.Type # AccessToken
             THEN [code |-> 401, err |-> "Invalid token type", userID |-> 0]
             ELSE [code |-> 0, err |-> "", userID |-> v.claims.UserID]

(* ---------------------------- rate limiter ---------------------------- *)
Min(a, b) == IF a <= b THEN a ELSE b
Max(a, b) == IF a >= b THEN a ELSE b
\* math.ceil(a / b) for positive integers.
Ceil(a, b) == (a + b - 1) \div b

\* time.Now().Unix() at instant c.
Unix(c) == c \div TicksPerSecond

\* HMGET at instant c: a key past its expiry reads as absent.
HMGET(b, c) == IF b.present /\ c < b.expireAt THEN b ELSE NoBucket

\* The script without its decrement.
RateLimiterScript_NoDecrement(b, capacity, refill_rate, now) ==
    LET tokens0 == IF b.present THEN b.tokens ELSE capacity
        last0   == IF b.present THEN b.last_refill ELSE now
        delta   == now - last0
        tokens1 == IF delta > 0 THEN Min(capacity, tokens0 + delta * refill_rate)
                                ELSE tokens0
    IN  [allowed     |-> IF tokens1 >= 1 THEN 1 ELSE 0,
         tokens      |-> tokens1,
         last_refill |-> IF delta > 0 THEN now ELSE last0,
         ttl         |-> Ceil(capacity, refill_rate)]

\* The script allowing a request on an empty bucket.
RateLimiterScript_AllowAtZero(b, capacity, refill_rate, now) ==
    LET tokens0 == IF b.present THEN b.tokens ELSE capacity
        last0   == IF b.present THEN b.last_refill ELSE now
        delta   == now - last0
        tokens1 == IF delta > 0 THEN Min(capacity, tokens0 + delta * refill_rate)
                                ELSE tokens0
    IN  [allowed     |-> IF tokens1 >= 0 THEN 1 ELSE 0,
         tokens      |-> IF tokens1 >= 0 THEN tokens1 - 1 ELSE tokens1,
         last_refill |-> IF delta > 0 THEN now ELSE last0,
         ttl         |-> Ceil(capacity, refill_rate)]

\* rate_limiter.lua on the stored hash b.
RateLimiterScript(b, capacity, refill_rate, now) ==
    LET tokens0 == IF b.present THEN b.tokens ELSE capacity
        last0   == IF b.present THEN b.last_refill ELSE now
        delta   == now - last0
        tokens1 == IF delta > 0 THEN Min(capacity, tokens0 + delta * refill_rate)
                                ELSE tokens0
        last1   == IF delta > 0 THEN now ELSE last0
    IN  [allowed     |-> IF tokens1 >= 1 THEN 1 ELSE 0,
         tokens      |-> IF tokens1 >= 1 THEN tokens1 - 1 ELSE tokens1,
         last_refill |-> last1,
         ttl         |-> Ceil(capacity, refill_rate)]

\* The count of evaluations saturates here.
EvalCap == 7

\* The bookkeeping of one evaluation of a bucket, read as b, by request r:
\* n counts the evaluations since the key was created, same tells that all
\* of them carried the creating request's configuration and timestamp,
\* balance is the tokens granted (capacity at creation plus elapsed seconds
\* times rate) minus the requests allowed.
Recorded(h, b, r, allowed) ==
    LET now == Unix(r.at)
        code == IF allowed = 1 THEN 200 ELSE 429
    IN  IF ~b.present
        THEN [n |-> 1, same |-> TRUE, balance |-> r.cfg.Capacity - allowed,
              lastAt |-> r.at, lastCode |-> code]
        ELSE [n |-> Min(h.n + 1, EvalCap),
              same |-> h.same /\ r.cfg = b.by /\ now = b.last_refill,
              balance |-> h.balance - allowed
                            + Max(0, now - b.last_refill) * r.cfg.RefillRate,
              lastAt |-> r.at, lastCode |-> code]

\* rate_limiter.go:42-57: the middleware takes the identity from the
\* context and reads the clock.
LimiterBegin(t, u, cfg) ==
    /\ gw[t].pc = "idle"
    /\ gw' = [gw EXCEPT ![t] = [IdleRequest EXCEPT !.pc = "eval", !.user = u,
                                                   !.cfg = cfg, !.at = clock]]
    /\ UNCHANGED <<taskVars, readerVars, txVars, accountVars, authVars, clock, bucket, hist, decision>>

\* A limiter that turns the request away when the cache fails.
EvalErrorStatus_Closed == 429

\* EvalSha returned an error: log, c.Next() (fail open).
EvalErrorStatus == 200

\* rate_limiter.go:59-87: EvalSha runs the script atomically in the cache;
\* on an error the request proceeds (fail open). A refusal aborts the chain
\* with 429; otherwise c.Next() enters the route's handler, which for a
\* request without a route (the middleware alone) answers 200 at once.
LimiterEval(t) ==
    /\ gw[t].pc = "eval"
    /\ LET r == gw[t]
           b == HMGET(bucket[r.user], clock)
           out == RateLimiterScript(b, r.cfg.Capacity, r.cfg.RefillRate, Unix(r.at))
       IN  \E ok \in BOOLEAN :
             IF ok
             THEN /\ bucket' = [bucket EXCEPT ![r.user] =
                        [present |-> TRUE, tokens |-> out.tokens,
                         last_refill |-> out.last_refill,
                         expireAt |-> clock + out.ttl * TicksPerSecond,
                         by |-> r.cfg]]
                  /\ hist' = [hist EXCEPT ![r.user] = Recorded(@, b, r, out.allowed)]
                  /\ decision' = [evaluated |-> TRUE,
                                  code |-> IF out.allowed = 0 THEN 429 ELSE 200]
             ELSE /\ decision' = [evaluated |-> FALSE, code |-> EvalErrorStatus]
                  /\ UNCHANGED <<bucket, hist>>
    /\ IF gw[t].route = ""
       THEN /\ gw' = [gw EXCEPT ![t] = IdleRequest]
            /\ authResp' = authResp
       ELSE /\ gw' = [gw EXCEPT ![t] = IF decision'.code = 429
                                       THEN IdleRequest
                                       ELSE [gw[t] EXCEPT !.pc = "handler"]]
            /\ authResp' = [NoAuthResp EXCEPT !.op = gw[t].route,
                               !.header = gw[t].header, !.userID = gw[t].user,
                               !.code = IF decision'.code = 429 THEN 429 ELSE 0,
                               !.ran = <<"AuthMiddleware", "RateLimiterMiddleware">>]
    /\ UNCHANGED <<taskVars, readerVars, txVars, accountVars, authClock, held, requests, clock>>

Tick ==
    /\ clock < MaxClock
    /\ clock' = clock + 1
    /\ UNCHANGED <<taskVars, readerVars, txVars, accountVars, authVars, bucket, gw, hist, decision>>

LimiterNext ==
    \/ \E t \in Threads, u \in Limited, cfg \in Configs : LimiterBegin(t, u, cfg)
    \/ \E t \in Threads : LimiterEval(t)
    \/ Tick

LimiterSpec == Init /\ [][LimiterNext]_vars

(* ------------------------ cached reads, the runs ------------------------ *)
\* Concurrent readers of a task and of its owner's list while tasks are
\* created, one call of CreateTask at a time; the cache and the store fail
\* at will.
ReadNext ==
    \/ \E u \in Enqueuers, tt \in HandledTypes : creating = {} /\ CreateTaskBegin(u, tt)
    \/ CreateTaskNext
    \/ \E t \in Threads, u \in Enqueuers, id \in 1..MaxTasks :
            ReadBegin(t, "GetTask", u, Param(id))
    \/ \E t \in Threads, u \in Enqueuers : ReadBegin(t, "GetTasksByUser", u, Param(u))
    \/ \E t \in Threads : ReadFromStore(t)
    \/ \E t \in Threads : ReadEnd(t)

ReadSpec == Init /\ [][ReadNext]_vars


(* ------------------- transactions, step by step ----------------------- *)
\* WithTransaction(db, fn) is three calls on one connection: db.Begin, fn(tx)
\* and tx.Commit or tx.Rollback; the transactions of other goroutines run
\* between them.  The store is PostgreSQL at READ COMMITTED: an UPDATE locks
\* its row until the transaction ends, and NOW() is the time the
\* transaction started.

\* The row the sessions write.  Each UPDATE names one row by its id and rows
\* do not depend on each other, so the transactions meet on one row.
TxRows == {1}

\* The functions the workers pass to WithTransaction: one UPDATE each.
Statements ==
    {[op |-> "MarkProcessing", id |-> id, arg |-> ""] : id \in TxRows}
    \cup {[op |-> "MarkSuccess", id |-> id, arg |-> ResultFile] : id \in TxRows}
    \cup {[op |-> "MarkFailed", id |-> id, arg |-> MaxRetriesMsg] : id \in TxRows}

\* NOW() in a statement of a transaction that started at instant now.
AtTxStart(t, id, now) ==
    IF id \in DOMAIN t THEN [t EXCEPT ![id].updated_at = now] ELSE t

\* The table after fn's UPDATE, run in a transaction that started at now.
Apply(t, fn, now) ==
    CASE fn.op = "MarkProcessing" -> MarkProcessing(t, fn.id, now)
      [] fn.op = "MarkSuccess" -> MarkSuccess(t, fn.id, fn.arg, now)
      [] OTHER -> MarkFailed(t, fn.id, fn.arg, now)

\* The row fn writes already has fn's status with fn's result or error.
AlreadyEqual(t, fn) ==
    /\ fn.id \in DOMAIN t
    /\ CASE fn.op = "MarkProcessing" -> t[fn.id].status = "PROCESSING"
         [] fn.op = "MarkSuccess" ->
                t[fn.id].status = "SUCCESS" /\ t[fn.id].result_file = fn.arg
         [] OTHER -> t[fn.id].status = "FAILED" /\ t[fn.id].error_message = fn.arg

\* Session t holds the lock of row id: its UPDATE ran, its transaction is open.
Locks(t, id) == txn[t].pc = "ran" /\ txn[t].wrote /\ txn[t].fn.id = id

\* tx, err := db.Begin(); if err != nil { return err }
TxBegin(t, fn) ==
    /\ txn[t].pc = "idle"
    /\ fn.id \in DOMAIN tasks
    /\ \E ok \in BOOLEAN :
        IF ok
        THEN /\ txn' = [txn EXCEPT ![t] = [pc |-> "begun", now |-> clock, fn |-> fn,
                                           wrote |-> FALSE, result |-> ""]]
             /\ txOut' = txOut
        ELSE /\ txOut' = [result |-> "error", ran |-> FALSE, wrote |-> FALSE, repeat |-> FALSE]
             /\ txn' = txn
    /\ UNCHANGED <<taskVars, gatewayVars, readerVars, accountVars>>

\* fn(tx): the UPDATE waits for the row's lock; fn returns nil after its
\* write, or returns an error or panics, before or after its write.
TxRun(t, result, wrote) ==
    /\ txn[t].pc = "begun"
    /\ result = "nil" => wrote
    /\ wrote => \A o \in Threads \ {t} : ~Locks(o, txn[t].fn.id)
    /\ txn' = [txn EXCEPT ![t].pc = "ran", ![t].wrote = wrote, ![t].result = result]
    /\ UNCHANGED <<taskVars, gatewayVars, readerVars, accountVars, txOut>>

\* WithTransaction committing whatever fn returned.
TxEnd_AlwaysCommit(t) ==
    /\ txn[t].pc = "ran"
    /\ tasks' = IF txn[t].wrote THEN Apply(tasks, txn[t].fn, txn[t].now) ELSE tasks
    /\ txOut' = [result |-> txn[t].result, ran |-> TRUE, wrote |-> txn[t].wrote,
                 repeat |-> AlreadyEqual(tasks, txn[t].fn)]
    /\ txn' = [txn EXCEPT ![t] = IdleTx]
    /\ writtenAt' = Written(writtenAt, tasks, tasks', txn[t].fn.id, clock)
    /\ UNCHANGED <<taskSeq, brokerVars, workerVars, creating, created, cacheVars, resp,
                   gatewayVars, readerVars, accountVars>>

\* if err := fn(tx); err != nil { tx.Rollback(); return err }; the deferred
\* recover rolls back and panics again; else return tx.Commit().
TxEnd(t) ==
    /\ txn[t].pc = "ran"
    /\ IF txn[t].result = "nil"
       THEN \E ok \in BOOLEAN :
            IF ok
            THEN /\ tasks' = Apply(tasks, txn[t].fn, txn[t].now)
                 /\ txOut' = [result |-> "nil", ran |-> TRUE, wrote |-> txn[t].wrote,
                              repeat |-> AlreadyEqual(tasks, txn[t].fn)]
            ELSE /\ tasks' = tasks
                 /\ txOut' = [result |-> "error", ran |-> TRUE, wrote |-> txn[t].wrote,
                              repeat |-> FALSE]
       ELSE /\ tasks' = tasks
            /\ txOut' = [result |-> txn[t].result, ran |-> TRUE, wrote |-> txn[t].wrote,
                         repeat |-> FALSE]
    /\ txn' = [txn EXCEPT ![t] = IdleTx]
    /\ writtenAt' = Written(writtenAt, tasks, tasks', txn[t].fn.id, clock)
    /\ UNCHANGED <<taskSeq, brokerVars, workerVars, creating, created, cacheVars, resp,
                   gatewayVars, readerVars, accountVars>>

\* Last instant of the clock while transactions are observed, in ticks.
MaxTxClock == 2

\* What fn does: returns nil, returns an error or panics.
Results == {"nil", "error", "panic"}

\* Two sessions run the workers' transactions on the row of a created task
\* while the clock advances; every fn returns nil (an fn that fails adds
\* nothing to the committed history of the row).  The CreateTask call that
\* makes the row is followed as far as its commit: its later steps do not
\* touch the store.
RepoNext ==
    \/ \E u \in Enqueuers, tt \in HandledTypes : creating = {} /\ CreateTaskBegin(u, tt)
    \/ \E r \in creating : CreateTaskInsert(r)
    \/ \E r \in creating : CreateTaskCommit(r)
    \/ \E t \in Threads, fn \in Statements : TxBegin(t, fn)
    \/ \E t \in Threads : TxRun(t, "nil", TRUE)
    \/ \E t \in Threads : TxEnd(t)
    \/ clock < MaxTxClock /\ Tick

RepoSpec == Init /\ [][RepoNext]_vars

\* Two sessions run transactions whose fn returns nil, returns an error or
\* panics, before or after its write.
TxNext ==
    \/ \E u \in Enqueuers, tt \in HandledTypes : creating = {} /\ CreateTaskBegin(u, tt)
    \/ \E r \in creating : CreateTaskInsert(r)
    \/ \E r \in creating : CreateTaskCommit(r)
    \/ \E t \in Threads, fn \in Statements : TxBegin(t, fn)
    \/ \E t \in Threads, result \in Results, wrote \in BOOLEAN : TxRun(t, result, wrote)
    \/ \E t \in Threads : TxEnd(t)

TxSpec == Init /\ [][TxNext]_vars

(* ------------------------- authenticated routes ------------------------ *)
\* Tokens a client may present: any claims, signing secret and method, or no
\* JWT at all.
\* Expiry instants of presented tokens: one that passes within the run, one
\* that does not.
ExpInputs == {1, MaxAuthClock + RefreshTTL}
\* A well-signed access token that is not valid yet.
NotYetValid == [user_id |-> 1, type |-> AccessToken, exp |-> MaxAuthClock + RefreshTTL,
                nbf |-> MaxAuthClock + 1, secret |-> Secret, alg |-> "HS256"]
TokenInputs ==
    {Garbage, NotYetValid} \cup
    [user_id : Users, type : {AccessToken, RefreshToken, "other"}, exp : ExpInputs,
     nbf : {0}, secret : {Secret, OtherSecret}, alg : {"HS256", "RS256"}]
HeaderInputs ==
    {NoHeaderSent, [scheme |-> "Basic", token |-> Garbage]}
        \cup [scheme : {"Bearer"}, token : TokenInputs]

\* The count of successive refreshes saturates here.
ChainCap == 3

\* POST /auth/login with valid credentials: a fresh pair for the user.
Login(u) ==
    /\ held' = [pair |-> GenerateTokenPair(u, Secret, authClock), chain |-> 0]
    /\ authResp' = [NoAuthResp EXCEPT !.op = "Login", !.code = 200, !.pair = held'.pair]
    /\ UNCHANGED <<taskVars, readerVars, txVars, accountVars, limiterVars, authClock,
                   requests>>

\* POST /auth/refresh (UserController.RefreshToken): the pair of
\* RefreshTokenPair, or 401 on any error.
Refresh(tok) ==
    /\ LET r == RefreshTokenPair(tok, Secret, authClock)
       IN  IF r.err = ""
           THEN /\ authResp' = [NoAuthResp EXCEPT !.op = "RefreshToken",
                                   !.header = [scheme |-> "body", token |-> tok],
                                   !.code = 200, !.pair = r.pair]
                /\ held' = [pair |-> r.pair,
                            chain |-> IF tok = held.pair.RefreshToken
                                      THEN IF held.chain < ChainCap THEN held.chain + 1
                                                                    ELSE held.chain
                                      ELSE 1]
           ELSE /\ authResp' = [NoAuthResp EXCEPT !.op = "RefreshToken",
                                   !.header = [scheme |-> "body", token |-> tok],
                                   !.code = 401, !.err = "Invalid refresh token",
                                   !.cause = r.err]
                /\ held' = held
    /\ UNCHANGED <<taskVars, readerVars, txVars, accountVars, limiterVars, authClock,
                   requests>>

\* A request to a route of the /api/v1 group (handler.go:50-58), first
\* link: AuthMiddleware answers 401 and aborts, or sets userID and calls
\* c.Next(); RateLimiterMiddleware then takes the identity from the context
\* and reads the clock (rate_limiter.go:42-57).
Request(t, header, route) ==
    /\ gw[t].pc = "idle"
    /\ LET a == AuthMiddleware(header, Secret, authClock)
       IN  IF a.code = 401
           THEN /\ authResp' = [NoAuthResp EXCEPT !.op = route, !.header = header,
                                   !.code = 401, !.err = a.err,
                                   !.ran = <<"AuthMiddleware">>]
                /\ gw' = gw
           ELSE /\ authResp' = [NoAuthResp EXCEPT !.op = route, !.header = header,
                                   !.userID = a.userID,
                                   !.ran = <<"AuthMiddleware">>]
                /\ gw' = [gw EXCEPT ![t] = [pc |-> "eval", user |-> a.userID,
                                            cfg |-> DefaultRateLimiterConfig,
                                            at |-> clock, route |-> route,
                                            header |-> header]]
    /\ requests' = requests + 1
    /\ UNCHANGED <<taskVars, readerVars, txVars, accountVars, clock, bucket, hist,
                   decision, authClock, held>>

\* Last link: the route's controller method runs with the identity the
\* first link put in the context; body is the task_type of a POST, param
\* the path parameter of a GET. The method's answer is resp.
Handler(t, body, param) ==
    /\ gw[t].pc = "handler"
    /\ gw' = [gw EXCEPT ![t] = IdleRequest]
    /\ authResp' = [NoAuthResp EXCEPT !.op = gw[t].route, !.header = gw[t].header,
                       !.userID = gw[t].user,
                       !.ran = <<"AuthMiddleware", "RateLimiterMiddleware", gw[t].route>>]
    /\ IF gw[t].route = "CreateTask"
       THEN CreateTask(gw[t].user, body)
       ELSE ReadCacheGet(t, gw[t].route, gw[t].user, param)
    /\ UNCHANGED <<clock, bucket, hist, decision, authClock, held, requests>>

AuthTick ==
    /\ authClock < MaxAuthClock
    /\ authClock' = authClock + 1
    /\ UNCHANGED <<taskVars, readerVars, txVars, accountVars, limiterVars, authResp, held, requests>>

\* The auth endpoints, which are outside the /api/v1 group.
AuthNext ==
    \/ \E u \in Users : Login(u)
    \/ \E tok \in TokenInputs \cup {held.pair.AccessToken, held.pair.RefreshToken} :
           Refresh(tok)
    \/ AuthTick

AuthSpec == Init /\ [][AuthNext]_vars

\* Requests within a run of the group's routes.
MaxRequests == 2

\* Headers presented to the group: none, another scheme, no JWT, a token not
\* valid yet, and for each identity a well-formed access token and that
\* token with one field changed (type, signing secret, method, or an expiry
\* that has passed).
GoodToken(u) == [user_id |-> u, type |-> AccessToken, exp |-> MaxAuthClock + RefreshTTL,
                 nbf |-> 0, secret |-> Secret, alg |-> "HS256"]
RouteTokens ==
    {Garbage, NotYetValid} \cup
    UNION {{GoodToken(u),
            [GoodToken(u) EXCEPT !.type = RefreshToken],
            [GoodToken(u) EXCEPT !.exp = 0],
            [GoodToken(u) EXCEPT !.secret = OtherSecret],
            [GoodToken(u) EXCEPT !.alg = "RS256"]} : u \in Users}
RouteHeaders ==
    {NoHeaderSent, [scheme |-> "Basic", token |-> GoodToken(1)]}
        \cup [scheme : {"Bearer"}, token : RouteTokens]

\* Requests to the routes of the group, served one at a time: a body with
\* or without task_type, any path parameter.
RouteNext ==
    \/ \E h \in RouteHeaders, route \in Routes :
           /\ requests < MaxRequests
           /\ route = "CreateTask" => CanCreate
           /\ Request(1, h, route)
    \/ LimiterEval(1)
    \/ \E tt \in HandledTypes \cup {""}, param \in TaskParams : Handler(1, tt, param)
    \/ CreateTaskNext
    \/ ReadFromStore(1)
    \/ ReadEnd(1)

RouteSpec == Init /\ [][RouteNext]_vars

(* ------------------------------ accounts ------------------------------- *)
\* The sequence users_id_seq stops here.
MaxUserSeq == 2

\* Request bodies of POST /auth/register and POST /auth/login.
Usernames == {"alice", "bob"}
Passwords == {"Pw123!", "Secret9"}
Credentials ==
    ((Usernames \X Passwords) \ {<<"bob", "Secret9">>})
        \cup {<<"al", "Pw123!">>, <<"alice", "short">>}
\* Bodies of POST /auth/login: those of Credentials that Register admits.
LoginInputs == Credentials \cap (Usernames \X Passwords)

\* binding:"required,min=3,max=50" and binding:"required,min=6".
ValidRegistration(username, password) ==
    /\ Len(username) >= 3 /\ Len(username) <= 50
    /\ Len(password) >= 6

\* bcrypt: the stored verifier is not the password; it matches exactly the
\* password it was made from (none of the inputs reaches bcrypt's 72 bytes).
GeneratePasswordHash(password) == [bcrypt |-> password]
ComparePasswordHash(hashedPassword, password) == hashedPassword.bcrypt = password

\* SELECT ... FROM users WHERE username = $1
Found(store, username) == {i \in DOMAIN store : store[i].username = username}
GetByUsername(store, username) == store[CHOOSE i \in Found(store, username) : TRUE]

\* username VARCHAR(50) NOT NULL UNIQUE: the INSERT fails with SQLSTATE 23505.
UniqueViolation(store, username) == Found(store, username) # {}

\* c.ShouldBindJSON's validation error.
ErrBind == [type |-> "validator.ValidationErrors", code |-> "", text |-> <<"validation">>]
\* errors.New("username already exists"), CreateUser's answer to a lookup
\* that found a row.
ErrUsernameExists ==
    [type |-> "*errors.errorString", code |-> "",
     text |-> <<"username", "already", "exists">>]
\* The unique violation as the pgx driver of db.Init returns it: a
\* *pgconn.PgError; its Error() is severity, message and SQLSTATE.
ErrUniqueViolation ==
    [type |-> "*pgconn.PgError", code |-> "23505",
     text |-> <<"ERROR:", "duplicate", "key", "value", "violates", "unique",
                "constraint", "\"users_username_key\"", "(SQLSTATE", "23505)">>]
\* A statement, Begin or Commit that failed on the connection.
ErrBadConn ==
    [type |-> "*errors.errorString", code |-> "",
     text |-> <<"driver:", "bad", "connection">>]

\* strings.Contains on the words of a text; the needles of Register start
\* and end at word boundaries.
Contains(text, needle) ==
    \E i \in 1..(Len(text) - Len(needle) + 1) :
        SubSeq(text, i, i + Len(needle) - 1) = needle

\* Register's mapping without its fallback on the error text.
RegisterStatus_NoFallback(err) ==
    IF err = NoErr THEN 201
    ELSE IF err.text = <<"username", "already", "exists">> THEN 409
    ELSE IF err.type = "*pq.Error" /\ err.code = "23505" THEN 409
    ELSE 500

\* Register's mapping of CreateUser's error to a status (part_011:139-161):
\* the service's own error text, then a *pq.Error with code 23505, then the
\* texts of a duplicate key; any other error is a 500.
RegisterStatus(err) ==
    IF err = NoErr THEN 201
    ELSE IF err.text = <<"username", "already", "exists">> THEN 409
    ELSE IF err.type = "*pq.Error" /\ err.code = "23505" THEN 409
    ELSE IF \/ Contains(err.text, <<"duplicate", "key">>)
            \/ Contains(err.text, <<"UNIQUE", "constraint">>)
            \/ Contains(err.text, <<"already", "exists">>)
    THEN 409
    ELSE 500

RegisterBody(err) ==
    IF err = NoErr THEN "User created successfully"
    ELSE IF RegisterStatus(err) = 409 THEN "Username already exists"
    ELSE "Failed to create user"

Answer(t, err, id, fault) ==
    regResp' = [regResp EXCEPT ![t] =
                   [code |-> RegisterStatus(err), body |-> RegisterBody(err), err |-> err,
                    user_id |-> id, username |-> reg[t].username, fault |-> fault]]

\* POST /auth/register, first half: bind and validate the body, then
\* CreateUser's lookup by username.  A lookup that fails with anything but
\* "found" lets the call go on to the INSERT.
RegisterBegin(t, username, password) ==
    /\ reg[t].pc = "idle"
    /\ userSeq + Cardinality({x \in Threads : reg[x].pc \in {"begin", "insert"}})
           < MaxUserSeq
    /\ IF ~ValidRegistration(username, password)
       THEN /\ regResp' = [regResp EXCEPT ![t] =
                   [NoRegResp EXCEPT !.code = 400, !.body = "validation", !.err = ErrBind,
                                     !.username = username]]
            /\ reg' = reg
       ELSE \E ok \in BOOLEAN :
            IF ok /\ Found(users, username) # {}
            THEN /\ regResp' = [regResp EXCEPT ![t] =
                       [NoRegResp EXCEPT !.code = RegisterStatus(ErrUsernameExists),
                                         !.body = RegisterBody(ErrUsernameExists),
                                         !.err = ErrUsernameExists,
                                         !.username = username]]
                 /\ reg' = reg
            ELSE /\ reg' = [reg EXCEPT ![t] = [pc |-> "begin", username |-> username,
                                              password |-> password, id |-> 0]]
                 /\ regResp' = regResp
    /\ UNCHANGED <<taskVars, readerVars, txVars, gatewayVars, users, userSeq, accepted, loginResp>>

\* POST /auth/register, second step: hash the password, then db.Begin()
\* (part_011:38-56); a failure is answered 500.
RegisterTx(t) ==
    /\ reg[t].pc = "begin"
    /\ \E ok \in BOOLEAN :
        IF ok
        THEN /\ reg' = [reg EXCEPT ![t].pc = "insert"]
             /\ regResp' = regResp
        ELSE /\ reg' = [reg EXCEPT ![t] = IdleRegister]
             /\ Answer(t, ErrBadConn, 0, TRUE)
    /\ UNCHANGED <<taskVars, readerVars, txVars, gatewayVars, users, userSeq, accepted,
                   loginResp>>

\* Third step: INSERT ... RETURNING id inside the transaction
\* (repository.go:24-52).  The statement waits while another open
\* transaction holds an uncommitted row of the same username.  The sequence
\* hands out its next value before the unique index is checked, and keeps
\* it when the transaction rolls back; the new row is not visible to other
\* sessions yet.  A username the index already holds fails the statement
\* with the driver's unique violation, which the controller answers 409.  Any other error of the statement (connection lost before
\* or after the server ran it) ends the call with 500.
RegisterInsert(t) ==
    /\ reg[t].pc = "insert"
    /\ \E fault \in {"none", "unsent", "lost"} :
        IF fault = "unsent"
        THEN /\ reg' = [reg EXCEPT ![t] = IdleRegister]
             /\ Answer(t, ErrBadConn, 0, TRUE)
             /\ userSeq' = userSeq
        ELSE /\ userSeq' = userSeq + 1
             /\ IF fault = "lost"
                THEN /\ reg' = [reg EXCEPT ![t] = IdleRegister]
                     /\ Answer(t, ErrBadConn, 0, TRUE)
                ELSE /\ \A x \in Threads \ {t} :
                          ~(reg[x].pc = "commit" /\ reg[x].username = reg[t].username)
                     /\ IF UniqueViolation(users, reg[t].username)
                        THEN /\ reg' = [reg EXCEPT ![t] = IdleRegister]
                             /\ Answer(t, ErrUniqueViolation, 0, FALSE)
                        ELSE /\ reg' = [reg EXCEPT ![t].pc = "commit",
                                                   ![t].id = userSeq']
                             /\ regResp' = regResp
    /\ UNCHANGED <<taskVars, readerVars, txVars, gatewayVars, users, accepted, loginResp>>

\* Fourth step: tx.Commit() (part_011:63-69) makes the row visible and the
\* call answers 201 with the id; when it fails the deferred Rollback drops
\* the row and the answer is 500.
RegisterCommit(t) ==
    /\ reg[t].pc = "commit"
    /\ reg' = [reg EXCEPT ![t] = IdleRegister]
    /\ \E ok \in BOOLEAN :
        IF ok
        THEN /\ users' = Append(users,
                    [id |-> reg[t].id, username |-> reg[t].username,
                     password |-> GeneratePasswordHash(reg[t].password)])
             /\ Answer(t, NoErr, reg[t].id, FALSE)
             /\ accepted' = accepted \cup
                    {[username |-> reg[t].username, password |-> reg[t].password,
                      user_id |-> reg[t].id, current |-> TRUE]}
        ELSE /\ Answer(t, ErrBadConn, 0, TRUE)
             /\ UNCHANGED <<users, accepted>>
    /\ UNCHANGED <<taskVars, readerVars, txVars, gatewayVars, userSeq, loginResp>>

\* UPDATE users SET password = $1 WHERE id = $2 on the table: the rows
\* affected and the table it leaves.
SetPassword(store, id, hashedPassword) ==
    [rows |-> Cardinality({i \in DOMAIN store : store[i].id = id}),
     store |-> [i \in DOMAIN store |->
                   IF store[i].id = id
                   THEN [store[i] EXCEPT !.password = hashedPassword]
                   ELSE store[i]]]

\* UserRepository.UpdatePassword (repository.go:113-137), a method of the
\* repository interface that no service or route of the program calls: a
\* caller of the package runs it in a transaction of its own and commits.
\* A failed Exec and an id without a row leave the table as it is.  The
\* accepted registration of the row stays current only when the new
\* verifier is one of its password.
UpdatePassword(id, hashedPassword) ==
    /\ \E ok \in BOOLEAN :
        IF ok /\ SetPassword(users, id, hashedPassword).rows # 0
        THEN /\ users' = SetPassword(users, id, hashedPassword).store
             /\ accepted' = {[a EXCEPT !.current =
                                 IF a.user_id = id
                                 THEN ComparePasswordHash(hashedPassword, a.password)
                                 ELSE a.current] : a \in accepted}
        ELSE UNCHANGED <<users, accepted>>
    /\ UNCHANGED <<taskVars, readerVars, txVars, gatewayVars, userSeq, reg, regResp,
                   loginResp>>

\* LoginUser issuing the pair for the row's position in the table.
LoginUser_RowNumber(store, username, password, secret, now, dbOk) ==
    IF ~dbOk \/ Found(store, username) = {}
    THEN [err |-> "invalid credentials", pair |-> NoPair]
    ELSE IF ~ComparePasswordHash(GetByUsername(store, username).password, password)
    THEN [err |-> "invalid credentials", pair |-> NoPair]
    ELSE [err |-> "", pair |-> GenerateTokenPair(CHOOSE i \in Found(store, username) : TRUE,
                                                 secret, now)]

\* LoginUser: look the user up, compare the password with the verifier,
\* issue a pair for the row's id.
LoginUser(store, username, password, secret, now, dbOk) ==
    IF ~dbOk \/ Found(store, username) = {}
    THEN [err |-> "invalid credentials", pair |-> NoPair]
    ELSE IF ~ComparePasswordHash(GetByUsername(store, username).password, password)
    THEN [err |-> "invalid credentials", pair |-> NoPair]
    ELSE [err |-> "", pair |-> GenerateTokenPair(GetByUsername(store, username).id,
                                                 secret, now)]

\* Login answering by the cause of the failure.
LoginStatus_ByCause(r, known) == IF r.err = "" THEN 200 ELSE IF known THEN 401 ELSE 404

\* Login's mapping of LoginUser's result to a status; known tells whether
\* the username has a row, which the controller never looks at.
LoginStatus(r, known) == IF r.err = "" THEN 200 ELSE 401

\* POST /auth/login (UserController.Login) with a well-formed body.
LoginWith(username, password) ==
    /\ \E dbOk \in BOOLEAN :
        LET r == LoginUser(users, username, password, Secret, authClock, dbOk)
        IN  loginResp' = [code |-> LoginStatus(r, Found(users, username) # {}),
                          body |-> IF r.err = "" THEN "" ELSE "Invalid credentials",
                          username |-> username, password |-> password,
                          pair |-> r.pair, fault |-> ~dbOk]
    /\ UNCHANGED <<taskVars, readerVars, txVars, gatewayVars, users, userSeq, reg, regResp, accepted>>

AccountNext ==
    \/ \E t \in Threads, c \in Credentials : RegisterBegin(t, c[1], c[2])
    \/ \E t \in Threads : RegisterTx(t)
    \/ \E t \in Threads : RegisterInsert(t)
    \/ \E t \in Threads : RegisterCommit(t)
    \/ \E c \in LoginInputs : LoginWith(c[1], c[2])
    \/ \E id \in 1..MaxUserSeq, p \in Passwords :
           UpdatePassword(id, GeneratePasswordHash(p))

AccountSpec == Init /\ [][AccountNext]_vars

(* ------------------------------ claims --------------------------------- *)
\* Messages the broker still holds for task id: ready in the queue, or
\* delivered to a worker and not yet settled.
Unsettled(id) ==
    {m \in BagToSet(queue) : m.id = id}
        \cup {cur[w] : w \in {x \in Workers : unacked[x] /\ cur[x].id = id}}

FailedWith(id, msg) ==
    /\ id \in DOMAIN tasks
    /\ tasks[id].status = "FAILED"
    /\ tasks[id].error_message = msg

\* C1: once a row's committed status is SUCCESS or FAILED, no later committed
\* write sets it to PENDING or PROCESSING.
C1_NoRegressFromTerminal ==
    [][\A id \in DOMAIN tasks :
          tasks[id].status \in Terminal
              => tasks'[id].status \notin {"PENDING", "PROCESSING"}]_vars

\* C2: every GetTask response either returns a task owned by the caller or is
\* Forbidden (an absent task is answered 404, a path parameter that is no
\* number 400, and neither returns a task).
C2_GetTaskOwnerOrForbidden ==
    (resp.op = "GetTask" /\ resp.code \notin {400, 403, 404})
        => /\ resp.code = 200
           /\ \A i \in DOMAIN resp.tasks : resp.tasks[i].user_id = resp.caller

\* C3: every task list returned to a caller holds only tasks owned by the
\* identity of the caller's token, whatever the user id in the URL path.
C3_ListOnlyOwnTasks ==
    (resp.op = "GetTasksByUser" /\ resp.code = 200)
        => \A i \in DOMAIN resp.tasks : resp.tasks[i].user_id = resp.caller

\* C4: every committed PENDING row has a message with its id that is queued
\* or delivered and not yet settled, also after a CreateTask whose publish
\* failed (a row whose CreateTask call has not yet reached its publish is
\* left out of the statement).
C4_PendingHasMessage ==
    \A id \in DOMAIN tasks :
        (/\ tasks[id].status = "PENDING"
         /\ id \notin {r.id : r \in {x \in creating : x.pc \in {"channel", "publish"}}})
            => Unsettled(id) # {}

\* C5: an accepted CreateTask (201) has persisted exactly one new row, with
\* status PENDING and owned by the caller, and has enqueued a message
\* carrying that row's id: the commit of a call adds its row and no other,
\* PENDING and owned by the caller; a publish that enqueues adds one message
\* with the row's id; and the call answered 201 has its row in the table,
\* a row no other call was answered 201 for, and its message was enqueued.
C5_AcceptedCreate ==
    [][\A r \in creating :
         /\ (r.pc = "commit" /\ r \notin creating' /\ tasks' # tasks)
                => /\ DOMAIN tasks' = DOMAIN tasks \cup {r.id}
                   /\ r.id \notin DOMAIN tasks
                   /\ tasks'[r.id].status = "PENDING"
                   /\ tasks'[r.id].user_id = r.user_id
         /\ (r.pc = "publish" /\ r \notin creating')
                => \A x \in creating' \ creating :
                      x.enqueued
                          => queue' = Enqueue(queue, Message(r.id, r.user_id, r.task_type,
                                                             NoHeader))
         /\ (r.pc = "answer" /\ r \notin creating' /\ resp'.code = 201)
                => /\ resp'.op = "CreateTask" /\ resp'.id = r.id
                   /\ resp'.caller = r.user_id
                   /\ r.id \in DOMAIN tasks /\ tasks[r.id].user_id = r.user_id
                   /\ r.id \notin created
                   /\ r.enqueued]_vars

\* C6: every committed change of a row's status is PENDING->PROCESSING,
\* PROCESSING->SUCCESS or PROCESSING->FAILED.
AllowedTransitions ==
    {<<"PENDING", "PROCESSING">>, <<"PROCESSING", "SUCCESS">>, <<"PROCESSING", "FAILED">>}

C6_OnlyStateMachineTransitions ==
    [][\A id \in DOMAIN tasks :
          tasks'[id].status # tasks[id].status
              => <<tasks[id].status, tasks'[id].status>> \in AllowedTransitions]_vars

\* C7: when a worker handles a delivery with retry_count >= 3 whose finalizing
\* transaction failed, the task reaches FAILED with the "max retries" marker:
\* the worker's transaction 3 on the exhausted delivery, after which the
\* delivery is dropped, leaves the row FAILED with that marker.
C7_ExhaustedReachesFailed ==
    [][\A w \in Workers :
          (/\ pc[w] \in {"retry", "fail_exec", "fail_commit"}
           /\ RetriesExhausted(cur[w]) /\ pc'[w] = "nack")
              => /\ tasks'[cur[w].id].status = "FAILED"
                 /\ tasks'[cur[w].id].error_message = MaxRetriesMsg]_vars

\* C8: a message with x-retry-count = 3 for a task whose type has no handler
\* ends with the row FAILED and an error message containing "max retries":
\* once a worker has finalized such a delivery the row carries the marker.
C8_UnknownTypeAtMaxRetries ==
    \A w \in Workers :
        (pc[w] = "ack" /\ cur[w].hdr = 3 /\ handleTask(cur[w].task_type) # Null
            /\ tasks[cur[w].id].status = "FAILED")
            => tasks[cur[w].id].error_message = MaxRetriesMsg

\* C9: when the handler fails and the finalizing transaction commits, the row
\* is FAILED with the handler's error message, and the worker's next step
\* acknowledges the delivery without publishing or requeueing any message.
C9_HandlerFailureIsTerminal ==
    [][\A w \in Workers :
          /\ (/\ pc[w] = "finalize_commit" /\ pc'[w] = "ack"
              /\ handleTask(cur[w].task_type) # Null)
                => /\ tasks'[cur[w].id].status = "FAILED"
                   /\ tasks'[cur[w].id].error_message = handleTask(cur[w].task_type)
                   /\ queue' = queue
          /\ (/\ pc[w] \in {"finalize", "finalize_exec", "finalize_commit"}
              /\ pc'[w] = "retry") => tasks' = tasks
          /\ (pc[w] = "ack" /\ pc'[w] # "ack")
                => /\ queue' = queue
                   /\ ~unacked'[w]
                   /\ tasks' = tasks]_vars

C9_Witness ==
    \E w \in Workers :
        /\ pc[w] = "ack"
        /\ handleTask(cur[w].task_type) # Null
        /\ FailedWith(cur[w].id, handleTask(cur[w].task_type))

\* C10 as stated: no message with retry_count above 3 is published and at
\* most 3 republishes occur per originally enqueued message (each task has
\* one originally enqueued message).
AllMessages == BagToSet(queue) \cup {cur[w] : w \in {x \in Workers : cur[x] # NoMsg}}

C10_AtMostThreeRepublishes ==
    /\ \A m \in AllMessages : RetryCount(m) <= 3
    /\ \A id \in DOMAIN republishes : republishes[id] <= 3

\* C10 amended: a republish happens only for a delivery with retry_count
\* k < 3 and carries k + 1; no message with retry_count above 3 exists, and
\* no chain of republished messages holds more than 3 republishes.

C10_BoundedRepublish ==
    /\ [](\A m \in AllMessages : RetryCount(m) <= 3 /\ m.hops <= 3)
    /\ [][\A w \in Workers :
            (pc[w] = "retry" /\ pc'[w] = "republished")
                => /\ RetryCount(cur[w]) < 3
                   /\ \E m \in BagToSet(queue') :
                        /\ m = [cur[w] EXCEPT !.hdr = RetryCount(cur[w]) + 1,
                                              !.hops = cur[w].hops + 1]
                        /\ queue' = Enqueue(queue, m)]_vars

C10_Witness ==
    \E w \in Workers :
        /\ pc[w] = "retry"
        /\ RetriesExhausted(cur[w])
        /\ cur[w].hops = 3

\* C11: the stored token count of every bucket lies between 0 and the
\* capacity of the limiter that evaluated it last, whichever configurations
\* evaluated the bucket before.
C11_TokensWithinCapacity ==
    \A u \in Limited :
        bucket[u].present =>
            /\ 0 <= bucket[u].tokens
            /\ bucket[u].tokens <= bucket[u].by.Capacity

\* C12: evaluations of one bucket by concurrent gateway goroutines act one
\* after the other on the stored state: the tokens in store never exceed
\* the tokens granted minus the requests allowed, and that balance is never
\* negative, so no more requests are allowed than tokens were available.
C12_AllowedWithinGranted ==
    \A u \in Limited :
        bucket[u].present =>
            /\ 0 <= bucket[u].tokens
            /\ bucket[u].tokens <= hist[u].balance

\* Two requests were in flight together: one read the clock earlier than
\* the request evaluated last and is still to be evaluated, on a bucket
\* that has no token left.
C12_Witness ==
    \E u \in Limited, t \in Threads :
        /\ gw[t].pc = "eval" /\ gw[t].user = u
        /\ gw[t].at < hist[u].lastAt
        /\ hist[u].n >= 2
        /\ bucket[u].present /\ bucket[u].tokens = 0

\* C13: while all evaluations since the bucket was created carry one
\* configuration and one timestamp, the n-th of them is allowed exactly
\* when n is at most the capacity; every later one gets 429.
C13_ExactlyCapacityAllowed ==
    \A u \in Limited :
        (hist[u].n >= 1 /\ hist[u].same) =>
            (hist[u].lastCode = 200 <=> hist[u].n <= bucket[u].by.Capacity)

C13_Witness ==
    \E u \in Limited :
        /\ hist[u].same
        /\ bucket[u].by.Capacity = 5
        /\ hist[u].n = 6
        /\ hist[u].lastCode = 429
        /\ decision = [evaluated |-> TRUE, code |-> 429]

\* C14: after a request of an identity was rejected, the next request of
\* that identity evaluated by the same limiter, made t seconds later with
\* t * R >= 1, is allowed.
C14_RefillAfterRejection ==
    [][\A u \in Limited :
          ( /\ hist'[u] # hist[u]
            /\ hist[u].lastCode = 429
            /\ bucket'[u].by = bucket[u].by
            /\ (hist'[u].lastAt - hist[u].lastAt) * bucket'[u].by.RefillRate
                   >= TicksPerSecond )
          => hist'[u].lastCode = 200]_vars

\* C15: in every committed state of every row, result_file is set exactly
\* when the status is SUCCESS and error_message is set exactly when the
\* status is FAILED.
C15_ResultAndErrorMatchStatus ==
    \A id \in DOMAIN tasks :
        /\ tasks[id].result_file # Null <=> tasks[id].status = "SUCCESS"
        /\ tasks[id].error_message # Null <=> tasks[id].status = "FAILED"

\* CreateTask for row id was answered 201.
Accepted(id) == id \in created

\* The step answers a request of identity u for u's own task list with 200.
OwnListAnswered(u) ==
    /\ resp' # resp
    /\ resp'.op = "GetTasksByUser" /\ resp'.code = 200
    /\ resp'.caller = u /\ resp'.id = u

\* The answer of the step holds every accepted task of u.
HoldsAccepted(u) ==
    \A id \in DOMAIN tasks :
        (tasks[id].user_id = u /\ Accepted(id))
            => \E i \in DOMAIN resp'.tasks : resp'.tasks[i].id = id

\* C16 as stated: after an accepted CreateTask by u, every later task list
\* requested by u contains the new task, whatever lists u requested before.
C16_ListContainsCreated ==
    [][\A u \in Users : OwnListAnswered(u) => HoldsAccepted(u)]_vars

\* C16 amended: after an accepted CreateTask by u, every list of u that is
\* read from the store contains the new task, and the read answers 200 with
\* what it read (a list cached before the creation, or read from the store
\* before it and cached after it, is served as it is until its TTL passes).
C16_ListFromStoreContainsCreated ==
    [][\A t \in Threads :
         /\ (rd[t].pc = "store" /\ rd'[t].pc = "set" /\ rd[t].op = "GetTasksByUser")
                => \A id \in DOMAIN tasks :
                      (tasks[id].user_id = rd[t].key /\ Accepted(id))
                          => \E i \in DOMAIN rd'[t].val : rd'[t].val[i].id = id
         /\ (rd[t].pc = "set" /\ rd'[t].pc = "idle" /\ rd[t].op = "GetTasksByUser")
                => /\ resp'.code = 200
                   /\ resp'.tasks = rd[t].val]_vars

C16_Witness ==
    /\ resp.op = "GetTasksByUser" /\ resp.code = 200 /\ resp.caller = resp.id
    /\ resp.from = "store"
    /\ Len(resp.tasks) = 1
    /\ Accepted(resp.tasks[1].id)
    /\ tasks[resp.tasks[1].id].user_id = resp.caller

\* The answer in resp is a 200 to the owner's GetTask of a task that
\* CreateTask answered 201 for, of a poll that began at least span ticks
\* after the last commit that changed the task's row.
PolledAfter(span) ==
    /\ resp.op = "GetTask" /\ resp.code = 200
    /\ resp.id \in DOMAIN tasks /\ resp.id \in created
    /\ resp.caller = tasks[resp.id].user_id
    /\ writtenAt[resp.id] >= 0
    /\ resp.began >= writtenAt[resp.id] + span

ShowsSuccess(task) == task.status = "SUCCESS" /\ task.result_file # Null

\* Seconds: a span shorter than the cache TTL of an hour.
Seconds == CacheTTL - 1

\* C17 as stated: once a worker has committed SUCCESS for a created task,
\* the owner's polls of it that begin seconds after the commit or later
\* show SUCCESS with a result reference, also after earlier polls that
\* showed PENDING or PROCESSING.
C17_PollSeesSuccess ==
    (PolledAfter(Seconds) /\ tasks[resp.id].status = "SUCCESS")
        => ShowsSuccess(resp.tasks[1])

\* C17 amended: a poll that begins at least the cache TTL plus the read
\* deadline after the last committed write of the row answers with the row
\* as the store holds it, SUCCESS with a result reference when SUCCESS is
\* the stored status (a redelivered message claimed again sets the row back
\* to PROCESSING, and then that is what the poll shows).  A poll that reads
\* the store reads the row as it is then and answers 200 with what it
\* read; a poll served from the cache answers with an entry that has not
\* reached its TTL, so a poll that begins earlier can show the status read
\* before the commit.
C17_PollAfterTTLSeesStoredRow ==
    /\ [](PolledAfter(CacheTTL + ReadDeadline)
             => /\ resp.tasks = <<Snapshot(tasks, resp.id)>>
                /\ tasks[resp.id].status = "SUCCESS" => ShowsSuccess(resp.tasks[1]))
    /\ [][/\ \A t \in Threads :
              /\ (rd[t].pc = "store" /\ rd'[t].pc = "set" /\ rd[t].op = "GetTask")
                     => /\ rd'[t].val = <<Snapshot(tasks, rd[t].key)>>
                        /\ tasks[rd[t].key].status = "SUCCESS"
                               => ShowsSuccess(rd'[t].val[1])
              /\ (rd[t].pc = "set" /\ rd'[t].pc = "idle" /\ rd[t].op = "GetTask")
                     => /\ resp'.code = 200
                        /\ resp'.tasks = rd[t].val
          /\ (resp' # resp /\ resp'.op = "GetTask" /\ resp'.from = "cache")
                 => /\ resp'.id \in DOMAIN taskCache
                    /\ resp'.tasks = taskCache[resp'.id].val
                    /\ clock < taskCache[resp'.id].expireAt
                    /\ taskCache[resp'.id].expireAt <= clock + CacheTTL]_vars

\* A poll served from the cache, begun the cache TTL plus the read deadline
\* after the commit of SUCCESS, shows SUCCESS: the entry it was served was
\* read after that commit.
C17_Witness ==
    /\ PolledAfter(CacheTTL + ReadDeadline)
    /\ tasks[resp.id].status = "SUCCESS"
    /\ resp.from = "cache"
    /\ ShowsSuccess(resp.tasks[1])
    /\ resp.tasks[1].result_file = ResultFile

\* The identity a token decodes to at the instant of the state.
Decoded(tok) == ValidateToken(tok, Secret, authClock)

\* C18: for every refresh token accepted by the refresh operation, the
\* access token and the refresh token of the returned pair decode to the
\* identity the presented token decodes to, along any chain of refreshes.
C18_RefreshKeepsIdentity ==
    (authResp.op = "RefreshToken" /\ authResp.code = 200
         /\ Decoded(authResp.pair.AccessToken).err = "")
    => /\ Decoded(authResp.pair.AccessToken).claims.UserID = authResp.header.token.user_id
       /\ Decoded(authResp.pair.RefreshToken).claims.UserID = authResp.header.token.user_id
       /\ Decoded(authResp.pair.AccessToken).claims.Type = AccessToken
       /\ Decoded(authResp.pair.RefreshToken).claims.Type = RefreshToken
       /\ held.chain >= 1 /\ held.pair = authResp.pair

\* The second refresh of a chain, for the second identity.
C18_Witness ==
    /\ authResp.op = "RefreshToken" /\ authResp.code = 200
    /\ held.chain = 2
    /\ authResp.header.token.user_id = 2
    /\ Decoded(authResp.pair.AccessToken).claims.UserID = 2

\* C19: the refresh operation rejects every token whose type is not
\* refresh with 401 "Invalid refresh token" and returns no pair.
C19_RefreshRejectsOtherTypes ==
    (authResp.op = "RefreshToken" /\ authResp.header.token.type # RefreshToken)
    => /\ authResp.code = 401
       /\ authResp.err = "Invalid refresh token"
       /\ authResp.pair = NoPair

\* The access token of the pair in hand, valid and unexpired, was presented.
C19_Witness ==
    /\ authResp.op = "RefreshToken" /\ authResp.code = 401
    /\ authResp.cause = "not a refresh token"
    /\ held.pair # NoPair
    /\ authResp.header.token = held.pair.AccessToken
    /\ Decoded(held.pair.AccessToken).err = ""

\* The header bears a token of type access signed with the server's secret.
SignedAccess(h) ==
    /\ h.scheme = "Bearer"
    /\ h.token.alg \in HMAC /\ h.token.secret = Secret
    /\ h.token.type = AccessToken

\* The request bears a token that is signed with the server's secret, is
\* not expired and has type access.
ValidAccess(h) ==
    /\ SignedAccess(h)
    /\ h.token.nbf <= authClock /\ authClock < h.token.exp

\* C20: a request to a route of the group passes the first middleware only
\* when it bears a valid unexpired access token, and then the limiter and
\* the handler run with that token's identity as the caller; any other
\* request gets 401 from the first middleware, which leaves the buckets,
\* the tasks, the queue and the caches as they are.
C20_OnlyValidAccessTokens ==
    [][/\ (requests' # requests) =>
            IF ValidAccess(authResp'.header)
            THEN /\ authResp'.code = 0
                 /\ authResp'.userID = authResp'.header.token.user_id
                 /\ \E t \in Threads :
                        /\ gw[t].pc = "idle" /\ gw'[t].pc = "eval"
                        /\ gw'[t].user = authResp'.header.token.user_id
                        /\ gw'[t].header = authResp'.header
            ELSE /\ authResp'.code = 401
                 /\ authResp'.userID = 0
                 /\ authResp'.ran = <<"AuthMiddleware">>
                 /\ gw' = gw
       /\ (requests' # requests) => UNCHANGED <<bucket, hist, taskVars, rd>>
       /\ \A t \in Threads :
            (gw[t].route # "" /\ gw'[t] # gw[t]) =>
                /\ SignedAccess(gw[t].header)
                /\ gw[t].user = gw[t].header.token.user_id
                /\ bucket' # bucket => bucket'[gw[t].user] # bucket[gw[t].user]
                /\ gw[t].pc = "handler" =>
                      /\ resp' # resp => resp'.caller = gw[t].user
                      /\ rd'[t] # rd[t] => rd'[t].caller = gw[t].user
                      /\ \A r \in creating' \ creating : r.user_id = gw[t].user]_vars

\* A valid unexpired refresh token of the second identity was turned away
\* after a request with that identity's access token had passed the limiter
\* and reached its handler.
C20_Witness ==
    /\ authResp.op \in Routes /\ authResp.code = 401
    /\ authResp.err = "Invalid token type"
    /\ authResp.header = [scheme |-> "Bearer",
                          token |-> [GoodToken(2) EXCEPT !.type = RefreshToken]]
    /\ authResp.ran = <<"AuthMiddleware">>
    /\ bucket[2].present /\ bucket[2].tokens = DefaultRateLimiterConfig.Capacity - 1
    /\ ~bucket[1].present
    /\ resp.caller = 2 /\ resp.code = 201

\* C21: once a refresh has succeeded on a refresh token and returned a new
\* pair, a later refresh request presenting that same token is rejected.
C21_OldRefreshTokenRejected ==
    [][(/\ authResp.op = "RefreshToken" /\ authResp.code = 200
        /\ authResp.pair.RefreshToken # authResp.header.token
        /\ authClock' = authClock
        /\ authResp'.op = "RefreshToken"
        /\ authResp'.header.token = authResp.header.token)
       => authResp'.code = 401]_vars

\* C22: under every interleaving of Register calls the users table never
\* holds two rows with one username, at most one call per username is
\* answered 201, and every other call for that username that the store
\* served is answered 409.
C22_UniqueUsername ==
    [][/\ \A i, j \in DOMAIN users' : users'[i].username = users'[j].username => i = j
       /\ \A a, b \in accepted' : a.username = b.username => a = b
       /\ \A t \in Threads :
            (regResp'[t] # regResp[t] /\ regResp'[t].code # 400 /\ ~regResp'[t].fault)
            => /\ regResp'[t].code \in {201, 409}
               /\ (\E a \in accepted : a.username = regResp'[t].username)
                    => regResp'[t].code = 409]_vars

\* Two calls for one username both passed the lookup; the first INSERT was
\* answered 201, the second one hit the unique index and was answered 409.
C22_Witness ==
    \E t, o \in Threads :
        /\ t # o
        /\ regResp[t].code = 201 /\ regResp[o].code = 409
        /\ regResp[o].err = ErrUniqueViolation
        /\ ~(regResp[o].err.type = "*pq.Error")
        /\ Contains(regResp[o].err.text, <<"duplicate", "key">>)
        /\ regResp[o].username = regResp[t].username
        /\ Len(users) = 1

\* C23: once Register has accepted username u with password p, a Login
\* with u and p that the store serves, with no other password put in p's
\* place since, is answered 200 with a pair whose access token decodes to
\* the id Register answered.
C23_RegisterThenLogin ==
    [][\A a \in accepted :
          (/\ loginResp' # loginResp /\ ~loginResp'.fault /\ a.current
           /\ loginResp'.username = a.username /\ loginResp'.password = a.password)
          => /\ loginResp'.code = 200
             /\ Decoded(loginResp'.pair.AccessToken).err = ""
             /\ Decoded(loginResp'.pair.AccessToken).claims.UserID = a.user_id
             /\ Decoded(loginResp'.pair.AccessToken).claims.Type = AccessToken]_vars

\* The login of an identity whose id is not its row's position: the
\* INSERT that took the sequence's first value has not committed yet.
C23_Witness ==
    /\ loginResp.code = 200
    /\ \E a \in accepted :
         /\ a.username = loginResp.username /\ a.password = loginResp.password
         /\ Decoded(loginResp.pair.AccessToken).claims.UserID = a.user_id
         /\ a.user_id = 2
    /\ Len(users) = 1
    /\ \E t \in Threads : reg[t].pc = "commit" /\ reg[t].id = 1

\* C24: Login answers a username that has no row and a registered username
\* with a wrong password alike: 401 with the body "Invalid credentials"
\* and no pair.
C24_LoginHidesExistence ==
    [][(/\ loginResp' # loginResp
        /\ \/ Found(users, loginResp'.username) = {}
           \/ \E i \in Found(users, loginResp'.username) :
                  ~ComparePasswordHash(users[i].password, loginResp'.password))
       => /\ loginResp'.code = 401
          /\ loginResp'.body = "Invalid credentials"
          /\ loginResp'.pair = NoPair]_vars

\* A wrong password for a registered username was turned away by the
\* comparison itself, while another username has no row.
C24_Witness ==
    /\ loginResp.code = 401 /\ ~loginResp.fault
    /\ \E a \in accepted :
         a.username = loginResp.username /\ a.password # loginResp.password
    /\ \E u \in Usernames : Found(users, u) = {}

\* C25: GetTask for an id that no row carries is answered 404 to every
\* caller, never 403 (a path parameter that is no number is no id: it is
\* answered 400).
C25_UnknownIdNotFound ==
    (resp.op = "GetTask" /\ resp.code # 400 /\ resp.id \notin DOMAIN tasks)
    => /\ resp.code = 404
       /\ resp.tasks = <<>>

\* The second user asks for the id after the last one issued, with both
\* the cache and the store answering.
C25_Witness ==
    /\ resp.op = "GetTask" /\ resp.code = 404
    /\ resp.caller = 2
    /\ DOMAIN tasks = 1..MaxTasks
    /\ resp.id = MaxTasks + 1

\* C26: a worker that holds a delivery whose body does not parse settles it
\* without requeue, writes nothing to the store, republishes nothing, and
\* goes back to the top of its loop.
C26_MalformedDropped ==
    [][\A w \in Workers :
          (pc[w] = "claim" /\ ~cur[w].parses /\ pc'[w] # "claim")
          => /\ tasks' = tasks
             /\ queue' = queue
             /\ republishes' = republishes
             /\ ~unacked'[w]
             /\ cur'[w] = NoMsg
             /\ pc'[w] = LoopTop(w)]_vars

\* CreateTask answered 201 for a type with a control character; a worker
\* received the message and dropped it, and is waiting for the next one.
C26_Witness ==
    /\ DOMAIN tasks = {1} /\ tasks[1].task_type = BellType
    /\ resp.code = 201 /\ resp.id = 1
    /\ tasks[1].status = "PENDING"
    /\ Unsettled(1) = {}
    /\ \A w \in Workers : pc[w] = "idle" /\ chanOpen[w] /\ cur[w] = NoMsg

\* The positions of a worker inside transaction 1.
ClaimSteps == {"claim", "claim_exec", "claim_commit"}

\* C27: when the transaction that sets a task to PROCESSING fails, at its
\* Begin, its UPDATE or its Commit, the worker hands the delivery back to
\* the queue, does not go on to the handler, and the tasks table is as it
\* was before the claim; it goes on to the handler only from a commit that
\* left the row PROCESSING, with the delivery still in its hands.
C27_FailedClaimRequeues ==
    [][/\ (~nacked /\ nacked')
          => \E w \in Workers :
               /\ pc[w] \in ClaimSteps /\ cur[w].parses
               /\ tasks' = tasks
               /\ pc'[w] = LoopTop(w)
               /\ cur'[w] = NoMsg
               /\ ~unacked'[w]
               /\ unacked[w] => queue' = Enqueue(queue, cur[w])
               /\ ~unacked[w] => queue' = queue
       /\ \A w \in Workers :
            /\ (/\ pc[w] \in ClaimSteps /\ cur[w].parses
                /\ pc'[w] \notin ClaimSteps \cup {"run"})
                   => /\ tasks' = tasks
                      /\ pc'[w] = LoopTop(w)
                      /\ cur'[w] = NoMsg
                      /\ ~unacked'[w]
                      /\ unacked[w] => queue' = Enqueue(queue, cur[w])
                      /\ ~unacked[w] => queue' = queue
            /\ (pc[w] \in ClaimSteps /\ pc'[w] = "run")
                   => /\ pc[w] = "claim_commit"
                      /\ cur'[w] = cur[w] /\ unacked'[w] = unacked[w]
                      /\ queue' = queue
                      /\ cur[w].id \in DOMAIN tasks
                            => tasks'[cur[w].id].status = "PROCESSING"]_vars

\* A claim failed on the first delivery of a task: its row is still
\* PENDING, its message is back in the queue as it was published, and
\* every worker is waiting at the top of its loop on an open channel.
C27_Witness ==
    /\ nacked
    /\ DOMAIN tasks = {1} /\ tasks[1].status = "PENDING"
    /\ \E m \in BagToSet(queue) : m.id = 1 /\ m.hdr = NoHeader /\ m.hops = 0
    /\ \A w \in Workers : pc[w] = "idle" /\ chanOpen[w] /\ cur[w] = NoMsg

\* C28: a request whose limiter evaluation failed in the cache goes on to
\* its handler; the failure yields no 429 and no other rejection, and
\* leaves the bucket as it was.
C28_FailOpen ==
    [][(decision' # decision /\ ~decision'.evaluated)
       => /\ decision'.code = 200
          /\ bucket' = bucket]_vars

\* The cache failed for a request that the bucket, empty in this very
\* second, would have turned away.
C28_Witness ==
    /\ ~decision.evaluated /\ decision.code = 200
    /\ \E u \in Limited :
         /\ bucket[u].present /\ clock < bucket[u].expireAt
         /\ bucket[u].tokens = 0
         /\ Unix(clock) = bucket[u].last_refill

\* C29: a cache failure never turns a successful store read into an error and
\* never changes the returned content.  A read that found its data in the
\* store holds exactly what the store returned, whether or not the cache GET
\* failed; it then answers 200 with that content, whether or not the cache SET
\* failed; and an error answer is given only when the store read failed (or
\* the task does not exist).
C29_CacheFailureHarmless ==
    [][\A t \in Threads :
         /\ (rd[t].pc = "store" /\ rd'[t].pc = "set")
                => rd'[t].val = StoreRead(tasks, rd'[t].op, rd'[t].key).val
         /\ (rd[t].pc = "set" /\ rd'[t].pc = "idle")
                => /\ resp'.code = 200
                   /\ resp'.tasks = rd[t].val
         /\ (rd[t].pc = "store" /\ rd'[t].pc = "idle")
                => /\ resp'.code = ReadErrorStatus(rd[t].op)
                   /\ \/ resp'.dbErr
                      \/ ~StoreRead(tasks, rd[t].op, rd[t].key).found]_vars

\* A read of a task and a read of a list, each with the cache GET and the cache
\* SET both failing, answered 200 with a non-empty content.
C29_Witness ==
    /\ resp.code = 200
    /\ resp.cacheErr
    /\ resp.setErr
    /\ resp.tasks # <<>>
    /\ resp.op = "GetTasksByUser"
    /\ \E t \in Threads : rd[t].pc = "set" /\ rd[t].op = "GetTask" /\ rd[t].cacheErr

\* C30: a task state answered by GetTask was the store's state of the task at
\* some moment no more than the cache TTL before the answer.  A consequence is
\* checked, of the answers served from the cache: one that differs from the
\* store's row is given no more than the TTL after the row was last written
\* (otherwise the store held the row's present state, not the answered one,
\* during the whole TTL before the answer).
C30_StaleWithinTTL ==
    [][(/\ resp' # resp
        /\ resp'.code = 200
        /\ resp'.op = "GetTask"
        /\ resp'.from = "cache"
        /\ resp'.tasks # <<Snapshot(tasks, resp'.id)>>)
           => writtenAt[resp'.id] >= clock - CacheTTL]_vars

\* C31: in the committed history of a task row the last-update timestamp
\* never decreases, also when concurrent transactions write the same row.
C31_UpdatedAtMonotonic ==
    [][\A id \in DOMAIN tasks : tasks'[id].updated_at >= tasks[id].updated_at]_vars

\* C32: MarkProcessing, MarkSuccess and MarkFailed are idempotent: committed
\* on a row that already has that status with the same result or error, each
\* leaves the row unchanged.
C32_RepeatLeavesRow ==
    [][\A t \in Threads :
         (/\ txn[t].pc = "ran" /\ txn'[t].pc = "idle"
          /\ txOut'.result = "nil"
          /\ AlreadyEqual(tasks, txn[t].fn))
            => tasks' = tasks]_vars

\* C32, amended: such a repeat changes no column of the row but updated_at,
\* which it sets to the NOW() of the repeating transaction.
C32_RepeatOnlyStamps ==
    [][\A t \in Threads :
         (/\ txn[t].pc = "ran" /\ txn'[t].pc = "idle"
          /\ txOut'.result = "nil"
          /\ AlreadyEqual(tasks, txn[t].fn))
            => tasks' = AtTxStart(tasks, txn[t].fn.id, txn[t].now)]_vars

\* A repeat has committed on a FAILED row some time after the row was created.
C32_Witness ==
    /\ txOut.repeat
    /\ txOut.result = "nil"
    /\ DOMAIN tasks # {}
    /\ tasks[1].status = "FAILED"
    /\ tasks[1].error_message = MaxRetriesMsg
    /\ tasks[1].updated_at > 0

\* C33: the owner id a task row got at creation is never changed by a later
\* operation (claim, finalize, max-retries write, cache population).
C33_OwnerConstant ==
    [][\A id \in DOMAIN tasks : tasks'[id].user_id = tasks[id].user_id]_vars

\* A task claimed, failed at its finalizing transaction until the max-retries
\* write, and cached by a read on the way, still with the owner that created it.
C33_Witness ==
    /\ DOMAIN tasks # {}
    /\ tasks[1].status = "FAILED"
    /\ tasks[1].error_message = MaxRetriesMsg
    /\ taskCache[1].present
    /\ tasks[1].user_id \in Enqueuers

\* C34: WithTransaction(fn) makes fn's writes visible exactly when fn returns
\* without error and the commit succeeds.  When fn returns an error or
\* panics the table is left as it was and the caller gets that error or
\* panic; the table changes only in a call that returns nil; a call that
\* returns nil has made fn's write visible; a call whose Begin failed
\* returns an error and has not run fn.
C34_CommitOrRollback ==
    [][/\ \A t \in Threads :
           (txn[t].pc = "ran" /\ txn'[t].pc = "idle")
              => /\ txn[t].result # "nil"
                      => tasks' = tasks /\ txOut'.result = txn[t].result
                 /\ tasks' # tasks => txn[t].result = "nil" /\ txOut'.result = "nil"
                 /\ txOut'.result = "nil"
                      => tasks' = Apply(tasks, txn[t].fn, txn[t].now)
       /\ (txOut' # txOut /\ ~txOut'.ran)
              => tasks' = tasks /\ txOut'.result = "error"]_vars

\* A call whose fn panicked after its write has returned, and the row is
\* still as CreateTask inserted it.
C34_Witness ==
    /\ txOut.ran
    /\ txOut.wrote
    /\ txOut.result = "panic"
    /\ DOMAIN tasks # {}
    /\ tasks[1].status = "PENDING"

\* C35: whenever a task row is PROCESSING, a worker is handling a delivery
\* for that task or a message for that task is queued (so that, once the
\* queue is empty and the workers are idle, no row is PROCESSING).
C35_ProcessingInHand ==
    \A id \in DOMAIN tasks :
        tasks[id].status = "PROCESSING"
            => \/ \E w \in Workers : pc[w] \notin {"idle", "stopped"} /\ cur[w].id = id
               \/ \E m \in BagToSet(queue) : m.id = id

\* C36: a worker settles every delivery it takes exactly once (ack, nack with
\* requeue or nack without requeue) before it takes the next one: it never
\* calls Ack or Nack more often than once for a delivery, and at the top of
\* its loop it owes none.
C36_SettledExactlyOnce ==
    \A w \in Workers :
        /\ owed[w] \in {0, 1}
        /\ pc[w] \in {"idle", "stopped"} => owed[w] = 0

\* A task whose message was published (201) and is gone from the queue: a
\* worker took it, dropped it as malformed, and is back at the top of its
\* loop owing nothing.
C36_Witness ==
    /\ \A w \in Workers : pc[w] = "idle" /\ owed[w] = 0
    /\ queue = EmptyBag
    /\ creating = {}
    /\ resp.code = 201
    /\ \E id \in DOMAIN tasks : tasks[id].task_type = BellType

\* C37: a task row has status SUCCESS only if a handler execution for that
\* task returned success: a row becomes SUCCESS only in the finalizing step
\* of a worker that handles a delivery for that task and whose handleTask
\* returned nil, and the row's task_type is one with a handler.
C37_SuccessOnlyByHandler ==
    [][\A id \in DOMAIN tasks' :
         (/\ tasks'[id].status = "SUCCESS"
          /\ id \in DOMAIN tasks => tasks[id].status # "SUCCESS")
            => /\ handleTask(tasks'[id].task_type) = Null
               /\ \E w \in Workers :
                    /\ pc[w] = "finalize_commit" /\ pc'[w] = "ack"
                    /\ cur[w].id = id
                    /\ handleTask(cur[w].task_type) = Null]_vars

\* A task finished with SUCCESS and acknowledged, the pool idle again.
C37_Witness ==
    /\ \E id \in DOMAIN tasks :
         tasks[id].status = "SUCCESS" /\ tasks[id].task_type \in KnownTypes
    /\ \A w \in Workers : pc[w] = "idle" /\ cur[w] = NoMsg
    /\ queue = EmptyBag

\* C38: every evaluation of the script answers and stores what the
\* reference algorithm does on the bucket it read and the timestamp it was
\* given, a timestamp earlier than the stored last_refill included: refill
\* by max(0, now - last_refill) * R clamped at C, take one token if there
\* is one, store the tokens with last_refill = now.
C38_MatchesReference ==
    [][\A t \in Threads :
          (gw[t].pc = "eval" /\ gw'[t].pc = "idle" /\ decision'.evaluated) =>
              LET r == gw[t]
                  b == HMGET(bucket[r.user], clock)
                  now == Unix(r.at)
                  C == r.cfg.Capacity
                  R == r.cfg.RefillRate
                  tokens0 == IF b.present THEN b.tokens ELSE C
                  last0 == IF b.present THEN b.last_refill ELSE now
                  refilled == Min(C, tokens0 + Max(0, now - last0) * R)
                  allowed == refilled >= 1
              IN  /\ decision'.code = (IF allowed THEN 200 ELSE 429)
                  /\ bucket'[r.user].tokens
                        = (IF allowed THEN refilled - 1 ELSE refilled)
                  /\ bucket'[r.user].last_refill = now]_vars

\* C38, restricted to evaluations whose configuration is the one that
\* wrote the bucket: the part that differs is last_refill alone.
C38_SameLimiterMatchesReference ==
    [][\A t \in Threads :
          (/\ gw[t].pc = "eval" /\ gw'[t].pc = "idle" /\ decision'.evaluated
           /\ HMGET(bucket[gw[t].user], clock).present
           /\ bucket[gw[t].user].by = gw[t].cfg
           /\ hist[gw[t].user].same) =>
              bucket'[gw[t].user].last_refill = Unix(gw[t].at)]_vars


\* C39: a request evaluated on a key that has expired is admitted only if
\* the bucket kept past its TTL would admit it too: by then the refill
\* rule has brought the kept bucket back to the full capacity.
C39_ExpiryAdmitsNothing ==
    [][\A t \in Threads :
          (/\ gw[t].pc = "eval" /\ gw'[t].pc = "idle" /\ decision'.evaluated
           /\ bucket[gw[t].user].present
           /\ clock >= bucket[gw[t].user].expireAt) =>
              LET r == gw[t]
                  kept == RateLimiterScript([bucket[r.user] EXCEPT !.present = TRUE],
                              r.cfg.Capacity, r.cfg.RefillRate, Unix(r.at))
              IN  kept.allowed = 0 => decision'.code = 429]_vars

\* C39 for the requests that read the clock once the key had expired: the
\* kept bucket gives the same decision and holds the same tokens.
C39_FreshTimestampAdmitsNothing ==
    [][\A t \in Threads :
          (/\ gw[t].pc = "eval" /\ gw'[t].pc = "idle" /\ decision'.evaluated
           /\ bucket[gw[t].user].present
           /\ clock >= bucket[gw[t].user].expireAt
           /\ gw[t].at >= bucket[gw[t].user].expireAt) =>
              LET r == gw[t]
                  kept == RateLimiterScript([bucket[r.user] EXCEPT !.present = TRUE],
                              r.cfg.Capacity, r.cfg.RefillRate, Unix(r.at))
              IN  /\ kept.allowed = 0 => decision'.code = 429
                  /\ kept.tokens = bucket'[r.user].tokens]_vars

====
